---- MODULE Spec2Model ----
(***************************************************************************)
(* The review-decision pipeline of the husky AI review scripts:           *)
(*   scripts/ai-unified-review.js   APPROVAL_STATUS script                *)
(*   unnamed/part_000 (1..394)      category-section script               *)
(*   unnamed/part_000 (396..838)    profile-driven unified entry point    *)
(*   scripts/ai-code-review.js      pre-push script                       *)
(*   scripts/ai-precommit-review.js pre-commit fast-path script           *)
(* A text is a sequence of one-character strings; indices follow the      *)
(* JavaScript convention (0-based, -1 for "not found").                   *)
(***************************************************************************)
EXTENDS Integers, Sequences, FiniteSets, TLC

VARIABLES
    entry,        \* which script runs
    reviewType,   \* the review kind it was started with
    hasApiKey,    \* whether OPENAI_API_KEY is set
    staging,      \* what git prints about the index
    pc,           \* position of the script
    gitTouched,   \* whether a git command has been run
    gitFailed,    \* whether a diff or file-listing command has thrown
    baseBranch,   \* base the pre-push diff was taken against
    repo,         \* what git answered to getDiff of the unified entry point
    mainDiff,     \* the diff main holds
    changedFiles, \* the file list main holds
    prompt,       \* what was sent to the evaluator
    call,         \* state of the remote call
    timer,        \* state of the timeout timer
    calls,        \* number of remote calls issued
    outcome,      \* what settled the awaited promise
    reply,        \* the answer the evaluator chose
    response,     \* its text, as the script receives it
    result,       \* the review result
    logs,         \* number of log files written
    logStatus,    \* Status line of the log
    crashed,      \* whether the top-level handler ran
    exitCode,     \* exit code of the process, -1 while it runs
    rawDiff,     \* diff text handed to the normalizer
    bundle,      \* result of parseDiff
    filtered,    \* result of filterDiffForAddedLines
    phase        \* position of the normalizer run

----------------------------------------------------------------------------
(* Characters and strings, as the JavaScript String methods treat them.    *)

WhiteSpace == {" ", "\t", "\n", "\r"}

LineBreak == {"\n", "\r"}

Digits == <<"0", "1", "2", "3", "4", "5", "6", "7", "8", "9">>

IsDigit(c) == \E d \in 1..Len(Digits) : Digits[d] = c

DigitValue(c) == (CHOOSE d \in 1..Len(Digits) : Digits[d] = c) - 1

UpperCase == <<"A", "B", "C", "D", "E", "F", "G", "H", "I", "J", "K", "L", "M",
               "N", "O", "P", "Q", "R", "S", "T", "U", "V", "W", "X", "Y", "Z">>

LowerCase == <<"a", "b", "c", "d", "e", "f", "g", "h", "i", "j", "k", "l", "m",
               "n", "o", "p", "q", "r", "s", "t", "u", "v", "w", "x", "y", "z">>

lowerChar(c) ==
    IF \E k \in 1..Len(UpperCase) : UpperCase[k] = c
    THEN LowerCase[CHOOSE k \in 1..Len(UpperCase) : UpperCase[k] = c]
    ELSE c

upperChar(c) ==
    IF \E k \in 1..Len(LowerCase) : LowerCase[k] = c
    THEN UpperCase[CHOOSE k \in 1..Len(LowerCase) : LowerCase[k] = c]
    ELSE c

toLowerCase(t) == [i \in 1..Len(t) |-> lowerChar(t[i])]

toUpperCase(t) == [i \in 1..Len(t) |-> upperChar(t[i])]

Minimum(S) == CHOOSE x \in S : \A y \in S : x <= y

Maximum(S) == CHOOSE x \in S : \A y \in S : y <= x

\* pattern p occurs in t at 0-based index i
occursAt(t, p, i) ==
    /\ i >= 0
    /\ i + Len(p) <= Len(t)
    /\ \A j \in 1..Len(p) : t[i + j] = p[j]

startsWith(t, p) == occursAt(t, p, 0)

indexOf(t, p) ==
    LET hits == {i \in 0..(Len(t) - Len(p)) : occursAt(t, p, i)}
    IN  IF hits = {} THEN -1 ELSE Minimum(hits)

includes(t, p) == indexOf(t, p) # -1

\* String.prototype.substring(start, end) for 0 <= start
substring(t, start, end) ==
    LET e == IF end > Len(t) THEN Len(t) ELSE end
    IN  IF start >= e THEN <<>> ELSE SubSeq(t, start + 1, e)

substringFrom(t, start) == substring(t, start, Len(t))

trim(t) ==
    LET solid == {i \in 1..Len(t) : t[i] \notin WhiteSpace}
    IN  IF solid = {} THEN <<>> ELSE SubSeq(t, Minimum(solid), Maximum(solid))

\* String.prototype.split('\n'): the pieces between the line feeds
split(t) ==
    LET starts == SelectSeq([i \in 1..(Len(t) + 1) |-> i - 1],
                            LAMBDA p : p = 0 \/ t[p] = "\n")
        endOf(k) == IF k = Len(starts) THEN Len(t) ELSE starts[k + 1] - 1
    IN  [k \in 1..Len(starts) |-> SubSeq(t, starts[k] + 1, endOf(k))]

\* Array.prototype.join('\n'); the halves are joined separately so that
\* the evaluation stays shallow on long inputs
RECURSIVE joinRange(_, _, _)
joinRange(lines, lo, hi) ==
    IF lo > hi THEN <<>>
    ELSE IF lo = hi THEN lines[lo]
    ELSE LET mid == (lo + hi) \div 2
         IN  joinRange(lines, lo, mid) \o <<"\n">> \o joinRange(lines, mid + 1, hi)

join(lines) == joinRange(lines, 1, Len(lines))

Repeat(c, n) == [i \in 1..n |-> c]

----------------------------------------------------------------------------
(* parseDiff: record extraction from a diff.                               *)

MAX_CHANGES_PER_TYPE == 50

LINE_LENGTH_LIMIT == 200

sDiffGit == <<"d", "i", "f", "f", " ", "-", "-", "g", "i", "t">>

sDiffGitA == <<"d", "i", "f", "f", " ", "-", "-", "g", "i", "t", " ", "a", "/">>

sSpaceB == <<" ", "b", "/">>

sPlus == <<"+">>

sPlus3 == <<"+", "+", "+">>

sMinus == <<"-">>

sMinus3 == <<"-", "-", "-">>

\* '.' of a regular expression without the s flag
isDot(c) == c \notin LineBreak

\* the path before " b/" is taken for the file
matchHeaderOldPath(line) ==
    LET at == {i \in 0..Len(line) : occursAt(line, sSpaceB, i)}
    IN  IF ~startsWith(line, sDiffGitA) \/ at = {} THEN [ok |-> FALSE, file |-> <<>>]
        ELSE [ok |-> TRUE, file |-> substring(line, Len(sDiffGitA), Maximum(at))]

\* line.match(/diff --git a\/(.+) b\/(.+)/): the leftmost start, the first
\* group as long as it can be, then the second group as long as it can be.
\* file is match[2]; ok is FALSE when match() returns null.
matchHeader(line) ==
    LET n == Len(line)
        dots(a, b) == \A k \in a..b : isDot(line[k + 1])
        \* 0-based [s, g1End) is group 1, " b/" follows, group 2 starts after it
        fits(s, g1End) ==
            /\ occursAt(line, sDiffGitA, s)
            /\ g1End > s + Len(sDiffGitA)
            /\ dots(s + Len(sDiffGitA), g1End - 1)
            /\ occursAt(line, sSpaceB, g1End)
            /\ g1End + Len(sSpaceB) < n
            /\ isDot(line[g1End + Len(sSpaceB) + 1])
        startsOk == {s \in 0..n : \E e \in s..n : fits(s, e)}
    IN  IF startsOk = {} THEN [ok |-> FALSE, file |-> <<>>]
        ELSE LET s == Minimum(startsOk)
                 e == Maximum({x \in s..n : fits(s, x)})
                 from == e + Len(sSpaceB)
                 stop == Minimum({k \in from..n : k = n \/ ~isDot(line[k + 1])})
             IN  [ok |-> TRUE, file |-> substring(line, from, stop)]

underCapOffByOne(count) == count <= MAX_CHANGES_PER_TYPE

\* additions.length < MAX_CHANGES_PER_TYPE (and the same for deletions)
underCap(count) == count < MAX_CHANGES_PER_TYPE

keepLineInclusive(cleanLine) == cleanLine # <<>> /\ Len(cleanLine) <= LINE_LENGTH_LIMIT

\* cleanLine && cleanLine.length < 200
keepLine(cleanLine) == cleanLine # <<>> /\ Len(cleanLine) < LINE_LENGTH_LIMIT

\* currentFile = null is the empty text: match[2] of (.+) is never empty
NoFile == <<>>

EmptyBundle == [additions |-> <<>>, deletions |-> <<>>, files |-> <<>>]

\* one iteration of "for (const line of lines)"
parseLine(acc, line) ==
    IF startsWith(line, sDiffGit)
    THEN LET m == matchHeader(line)
         IN  IF m.ok
             THEN [acc EXCEPT !.currentFile = m.file,
                              !.files = IF \E k \in 1..Len(@) : @[k] = m.file
                                        THEN @ ELSE Append(@, m.file)]
             ELSE acc
    ELSE IF startsWith(line, sPlus) /\ ~startsWith(line, sPlus3)
            /\ underCap(Len(acc.additions))
    THEN LET cleanLine == trim(substringFrom(line, 1))
         IN  IF keepLine(cleanLine)
             THEN [acc EXCEPT !.additions = Append(@,
                      [file |-> acc.currentFile, line |-> cleanLine, type |-> "addition"])]
             ELSE acc
    ELSE IF startsWith(line, sMinus) /\ ~startsWith(line, sMinus3)
            /\ underCap(Len(acc.deletions))
    THEN LET cleanLine == trim(substringFrom(line, 1))
         IN  IF keepLine(cleanLine)
             THEN [acc EXCEPT !.deletions = Append(@,
                      [file |-> acc.currentFile, line |-> cleanLine, type |-> "deletion"])]
             ELSE acc
    ELSE acc

\* the loop over lines[lo..hi], left to right, from accumulator acc; the
\* test on left makes the left half complete before the right half starts
RECURSIVE parseLoop(_, _, _, _)
parseLoop(lines, lo, hi, acc) ==
    IF lo > hi THEN acc
    ELSE IF lo = hi THEN parseLine(acc, lines[lo])
    ELSE LET mid == (lo + hi) \div 2
             left == parseLoop(lines, lo, mid, acc)
         IN  IF Len(left.files) >= 0
             THEN parseLoop(lines, mid + 1, hi, left)
             ELSE left

parseDiff(diff) ==
    IF diff = <<>> \/ trim(diff) = <<>>
    THEN EmptyBundle
    ELSE LET lines == split(diff)
             acc == parseLoop(lines, 1, Len(lines),
                      [additions |-> <<>>, deletions |-> <<>>, files |-> <<>>,
                       currentFile |-> NoFile])
         IN  [additions |-> acc.additions, deletions |-> acc.deletions,
              files |-> acc.files]

----------------------------------------------------------------------------
(* Decision extractors: the patterns matched against the response text.    *)

\* 0-based index of the first character at or after i that is no white
\* space (Len(t) when there is none): where a greedy \s* stops
skipSpaces(t, i) ==
    LET solid == {k \in i..(Len(t) - 1) : t[k + 1] \notin WhiteSpace}
    IN  IF solid = {} THEN Len(t) ELSE Minimum(solid)

\* 0-based index just past the digits that start at i: where a greedy \d*
\* stops
skipDigits(t, i) ==
    LET other == {k \in i..(Len(t) - 1) : ~IsDigit(t[k + 1])}
    IN  IF other = {} THEN Len(t) ELSE Minimum(other)

\* parseInt of a run of decimal digits
RECURSIVE parseInt(_)
parseInt(ds) ==
    IF Len(ds) = 0 THEN 0
    ELSE 10 * parseInt(SubSeq(ds, 1, Len(ds) - 1)) + DigitValue(ds[Len(ds)])

sApprovalStatus == <<"A", "P", "P", "R", "O", "V", "A", "L", "_", "S", "T", "A", "T", "U", "S", ":">>

anyTokenBlocks(status) == TRUE

\* status === 0, status being parseInt(approvalMatch[1])
statusBlocks(status) == parseInt(<<status>>) = 0

\* scripts/ai-unified-review.js: review.match(/APPROVAL_STATUS:\s*([01])/)
checkForCriticalIssues(review) ==
    LET valueAt(i) == skipSpaces(review, i + Len(sApprovalStatus))
        hits == {i \in 0..Len(review) :
                    /\ occursAt(review, sApprovalStatus, i)
                    /\ valueAt(i) < Len(review)
                    /\ review[valueAt(i) + 1] \in {"0", "1"}}
    IN  IF hits # {}
        THEN statusBlocks(review[valueAt(Minimum(hits)) + 1])
        ELSE FALSE

sStatusLabel == <<"*", "*", "s", "t", "a", "t", "u", "s", ":", "*", "*">>

sPass == <<"p", "a", "s", "s">>

sFail == <<"f", "a", "i", "l">>

\* review.match(/\*\*STATUS:\*\*\s*(PASS|FAIL)/i), then
\* statusMatch ? statusMatch[1].toUpperCase() : 'PASS'
matchStatus(review) ==
    LET low == toLowerCase(review)
        valueAt(i) == skipSpaces(low, i + Len(sStatusLabel))
        hits == {i \in 0..Len(low) :
                    /\ occursAt(low, sStatusLabel, i)
                    /\ \/ occursAt(low, sPass, valueAt(i))
                       \/ occursAt(low, sFail, valueAt(i))}
    IN  IF hits = {} THEN "PASS"
        ELSE IF occursAt(low, sFail, valueAt(Minimum(hits))) THEN "FAIL" ELSE "PASS"

sAssessmentLabel == <<"*", "*", "o", "v", "e", "r", "a", "l", "l", " ", "a", "s", "s", "e", "s", "s", "m", "e", "n", "t", ":", "*", "*">>

sExcellent == <<"e", "x", "c", "e", "l", "l", "e", "n", "t">>

sGood == <<"g", "o", "o", "d">>

sNeedsImprovement == <<"n", "e", "e", "d", "s", "_", "i", "m", "p", "r", "o", "v", "e", "m", "e", "n", "t">>

sCriticalIssues == <<"c", "r", "i", "t", "i", "c", "a", "l", "_", "i", "s", "s", "u", "e", "s">>

AssessmentWords ==
    << [word |-> sExcellent, name |-> "EXCELLENT"],
       [word |-> sGood, name |-> "GOOD"],
       [word |-> sNeedsImprovement, name |-> "NEEDS_IMPROVEMENT"],
       [word |-> sCriticalIssues, name |-> "CRITICAL_ISSUES"] >>

\* review.match(/\*\*OVERALL ASSESSMENT:\*\*\s*(EXCELLENT|GOOD|
\* NEEDS_IMPROVEMENT|CRITICAL_ISSUES)/i), then
\* assessmentMatch ? assessmentMatch[1].toUpperCase() : 'NEEDS_IMPROVEMENT'
matchAssessment(review) ==
    LET low == toLowerCase(review)
        valueAt(i) == skipSpaces(low, i + Len(sAssessmentLabel))
        wordsAt(j) == {w \in 1..Len(AssessmentWords) :
                          occursAt(low, AssessmentWords[w].word, j)}
        hits == {i \in 0..Len(low) :
                    occursAt(low, sAssessmentLabel, i) /\ wordsAt(valueAt(i)) # {}}
    IN  IF hits = {} THEN "NEEDS_IMPROVEMENT"
        ELSE AssessmentWords[Minimum(wordsAt(valueAt(Minimum(hits))))].name

sStars == <<"*", "*">>

sColonStars == <<":", "*", "*">>

sScoreOpen == <<"[", "s", "c", "o", "r", "e", ":">>

sOutOfTen == <<"/", "1", "0", "]">>

catQuality == <<"c", "o", "d", "e", " ", "q", "u", "a", "l", "i", "t", "y">>

catPerformance == <<"p", "e", "r", "f", "o", "r", "m", "a", "n", "c", "e">>

catSecurity == <<"s", "e", "c", "u", "r", "i", "t", "y">>

catTesting == <<"t", "e", "s", "t", "i", "n", "g">>

catDocumentation == <<"d", "o", "c", "u", "m", "e", "n", "t", "a", "t", "i", "o", "n">>

catReact == <<"r", "e", "a", "c", "t", "/", "f", "r", "o", "n", "t", "e", "n", "d">>

DEFAULT_SCORE == 7

\* "**<category>:**" at i
labelAt(low, category, i) == occursAt(low, sStars \o category \o sColonStars, i)

\* new RegExp(`\\*\\*${category}:\\*\\*\\s*\\[Score:\\s*(\\d+)/10\\]`, 'i');
\* match ? parseInt(match[1]) : 7.  category is given in lower case: the i flag
\* makes the match case-blind.
extractScore(review, category) ==
    LET low == toLowerCase(review)
        label == sStars \o category \o sColonStars
        openAt(i) == skipSpaces(low, i + Len(label))
        digitsAt(i) == skipSpaces(low, openAt(i) + Len(sScoreOpen))
        digitsEnd(i) == skipDigits(low, digitsAt(i))
        hits == {i \in 0..Len(low) :
                    /\ labelAt(low, category, i)
                    /\ occursAt(low, sScoreOpen, openAt(i))
                    /\ digitsEnd(i) > digitsAt(i)
                    /\ occursAt(low, sOutOfTen, digitsEnd(i))}
    IN  IF hits = {} THEN DEFAULT_SCORE
        ELSE LET i == Minimum(hits)
             IN  parseInt(substring(low, digitsAt(i), digitsEnd(i)))

extractScores(review) ==
    [quality |-> extractScore(review, catQuality),
     performance |-> extractScore(review, catPerformance),
     security |-> extractScore(review, catSecurity),
     testing |-> extractScore(review, catTesting),
     documentation |-> extractScore(review, catDocumentation),
     react |-> extractScore(review, catReact)]

\* Object.values(scores).reduce((a, b) => a + b, 0)
scoreSum(scores) ==
    scores.quality + scores.performance + scores.security
        + scores.testing + scores.documentation + scores.react

SCORE_COUNT == 6

SECURITY_THRESHOLD == 6

QUALITY_THRESHOLD == 5

OVERALL_THRESHOLD == 6

\* overallScore < overall, overallScore being the sum divided by the number
\* of scores: the quotient is below the bound exactly when the sum is below
\* the bound times the number of scores
meanBelow(scores, bound) == scoreSum(scores) < bound * SCORE_COUNT

shouldBlockIgnoringAssessment(assessment, scores) ==
    \/ scores.security < SECURITY_THRESHOLD
    \/ scores.quality < QUALITY_THRESHOLD
    \/ meanBelow(scores, OVERALL_THRESHOLD)

shouldBlockIgnoringMean(assessment, scores) ==
    \/ assessment = "CRITICAL_ISSUES"
    \/ scores.security < SECURITY_THRESHOLD
    \/ scores.quality < QUALITY_THRESHOLD

\* assessment === 'CRITICAL_ISSUES' || scores.security < 6 ||
\* scores.quality < 5 || overallScore < 6
shouldBlock(assessment, scores) ==
    \/ assessment = "CRITICAL_ISSUES"
    \/ scores.security < SECURITY_THRESHOLD
    \/ scores.quality < QUALITY_THRESHOLD
    \/ meanBelow(scores, OVERALL_THRESHOLD)

hdSyntax == <<"1", ".", " ", "s", "y", "n", "t", "a", "x", " ", "&", " ", "b", "u", "i", "l", "d", " ", "i", "s", "s", "u", "e", "s">>

hdSecurity == <<"2", ".", " ", "s", "e", "c", "u", "r", "i", "t", "y", " ", "v", "u", "l", "n", "e", "r", "a", "b", "i", "l", "i", "t", "i", "e", "s">>

hdStyle == <<"3", ".", " ", "c", "o", "d", "e", " ", "s", "t", "y", "l", "e", " ", "&", " ", "s", "t", "a", "n", "d", "a", "r", "d", "s">>

criticalSections == <<hdSyntax, hdSecurity, hdStyle>>

SECTION_WINDOW == 500

\* U+2022 (the bullet) is written "^": the module is ASCII, and no text of
\* the model uses "^" for anything else
chBullet == "^"

cleanPhrases ==
    { <<"n", "o", "n", "e", " ", "i", "d", "e", "n", "t", "i", "f", "i", "e", "d">>,
      <<"n", "o", " ", "i", "s", "s", "u", "e", "s">>,
      <<"n", "o", "t", " ", "f", "o", "u", "n", "d">>,
      <<"a", "l", "l", " ", "g", "o", "o", "d">> }

issueMarks ==
    { <<"-", " ">>, <<chBullet, " ">>, <<"*", " ">>,
      <<"e", "r", "r", "o", "r">>, <<"i", "s", "s", "u", "e">>,
      <<"p", "r", "o", "b", "l", "e", "m">>,
      <<"v", "i", "o", "l", "a", "t", "i", "o", "n">> }

\* index of the first match of /\d+\./ in t, -1 when there is none
numberedIndex(t) ==
    LET hits == {i \in 0..(Len(t) - 1) :
                    /\ IsDigit(t[i + 1])
                    /\ skipDigits(t, i) < Len(t)
                    /\ t[skipDigits(t, i) + 1] = "."}
    IN  IF hits = {} THEN -1 ELSE Minimum(hits)

\* the text between a section header and the next numbered section
sectionContentOf(reviewLower, section) ==
    LET sectionIndex == indexOf(reviewLower, section)
        afterSection == substringFrom(reviewLower, sectionIndex + Len(section))
        nextIndex == numberedIndex(afterSection)
    IN  IF nextIndex # -1
        THEN substring(afterSection, 0, nextIndex)
        ELSE substring(afterSection, 0, SECTION_WINDOW)

isCleanIgnored(sectionContent) == FALSE

\* the four includes() that make the loop continue
isClean(sectionContent) == \E ph \in cleanPhrases : includes(sectionContent, ph)

\* the issue indicators
hasIssueIndicator(sectionContent) ==
    \/ \E mk \in issueMarks : includes(sectionContent, mk)
    \/ numberedIndex(sectionContent) # -1

\* unnamed/part_000 241..271: the loop over criticalSections from the n-th
\* on; TRUE is "return true", running off the end is "return false"
RECURSIVE sectionLoop(_, _)
sectionLoop(reviewLower, n) ==
    IF n > Len(criticalSections) THEN FALSE
    ELSE IF indexOf(reviewLower, criticalSections[n]) = -1
    THEN sectionLoop(reviewLower, n + 1)
    ELSE LET sectionContent == sectionContentOf(reviewLower, criticalSections[n])
         IN  IF isClean(sectionContent) THEN sectionLoop(reviewLower, n + 1)
             ELSE IF hasIssueIndicator(sectionContent) THEN TRUE
             ELSE sectionLoop(reviewLower, n + 1)

checkForCriticalIssuesBySection(review) == sectionLoop(toLowerCase(review), 1)

sBlockingYes == <<"B", "L", "O", "C", "K", "I", "N", "G", ":", " ", "Y", "E", "S">>

\* unnamed/part_000 360..365
hasBlockingIssuesBySection(review) ==
    \/ includes(review, sBlockingYes)
    \/ includes(toLowerCase(review), toLowerCase(sBlockingYes))
    \/ checkForCriticalIssuesBySection(review)

sScoreLabel == <<"s", "c", "o", "r", "e", ":", "*", "*">>

\* review.match(/\*\*.*SCORE:\*\*\s*\[(\d+)\/10\]/i): found, and
\* parseInt(scoreMatch[1])
matchSpecializedScore(review) ==
    LET low == toLowerCase(review)
        openAt(j) == skipSpaces(low, j + Len(sScoreLabel))
        digitsEnd(j) == skipDigits(low, openAt(j) + 1)
        tail(j) ==
            /\ occursAt(low, sScoreLabel, j)
            /\ occursAt(low, <<"[">>, openAt(j))
            /\ digitsEnd(j) > openAt(j) + 1
            /\ occursAt(low, sOutOfTen, digitsEnd(j))
        labels(i) == {j \in (i + Len(sStars))..Len(low) :
                         /\ \A k \in (i + Len(sStars))..(j - 1) : isDot(low[k + 1])
                         /\ tail(j)}
        hits == {i \in 0..Len(low) : occursAt(low, sStars, i) /\ labels(i) # {}}
    IN  IF hits = {} THEN [found |-> FALSE, score |-> 0]
        ELSE LET j == Maximum(labels(Minimum(hits)))
             IN  [found |-> TRUE,
                  score |-> parseInt(substring(low, openAt(j) + 1, digitsEnd(j)))]

----------------------------------------------------------------------------
(* filterDiffForAddedLines: the additions-only rewrite of a diff.          *)

sIndex == <<"i", "n", "d", "e", "x", " ">>

sHunk == <<"@", "@">>

sSpace == <<" ">>

\* one iteration of the loop of filterDiffForAddedLines
\* the removal marker is taken off the line, and the line kept
filterLineStripsMarker(acc, line) ==
    IF startsWith(line, sMinus)
    THEN [acc EXCEPT !.filteredLines = Append(@, Tail(line))]
    ELSE [acc EXCEPT !.filteredLines = Append(@, line)]

\* only headers and context are kept
filterLineDropsChanges(acc, line) ==
    IF (startsWith(line, sPlus) /\ ~startsWith(line, sPlus3))
        \/ (startsWith(line, sMinus) /\ ~startsWith(line, sMinus3))
    THEN acc
    ELSE [acc EXCEPT !.filteredLines = Append(@, line)]

\* context lines under a header are left out
filterLineLimitsContext(acc, line) ==
    IF \/ startsWith(line, sDiffGit) \/ startsWith(line, sIndex)
       \/ startsWith(line, sPlus3) \/ startsWith(line, sMinus3)
       \/ startsWith(line, sHunk)
    THEN [filteredLines |-> Append(acc.filteredLines, line), inFileHeader |-> TRUE]
    ELSE IF startsWith(line, sPlus)
    THEN [filteredLines |-> Append(acc.filteredLines, line), inFileHeader |-> FALSE]
    ELSE IF startsWith(line, sSpace)
    THEN IF acc.inFileHeader THEN acc ELSE [acc EXCEPT !.filteredLines = Append(@, line)]
    ELSE IF startsWith(line, sMinus) /\ ~startsWith(line, sMinus3)
    THEN acc
    ELSE [acc EXCEPT !.filteredLines = Append(@, line)]

filterLine(acc, line) ==
    IF \/ startsWith(line, sDiffGit) \/ startsWith(line, sIndex)
       \/ startsWith(line, sPlus3) \/ startsWith(line, sMinus3)
       \/ startsWith(line, sHunk)
    THEN [filteredLines |-> Append(acc.filteredLines, line), inFileHeader |-> TRUE]
    ELSE IF startsWith(line, sPlus)
    THEN [filteredLines |-> Append(acc.filteredLines, line), inFileHeader |-> FALSE]
    ELSE IF startsWith(line, sSpace) /\ ~acc.inFileHeader
    THEN [acc EXCEPT !.filteredLines = Append(@, line)]
    ELSE IF startsWith(line, sMinus) /\ ~startsWith(line, sMinus3)
    THEN acc
    ELSE [acc EXCEPT !.filteredLines = Append(@, line)]

\* the loop over lines[lo..hi], left to right, from accumulator acc; the
\* test on left makes the left half complete before the right half starts
RECURSIVE filterLoop(_, _, _, _)
filterLoop(lines, lo, hi, acc) ==
    IF lo > hi THEN acc
    ELSE IF lo = hi THEN filterLine(acc, lines[lo])
    ELSE LET mid == (lo + hi) \div 2
             left == filterLoop(lines, lo, mid, acc)
         IN  IF Len(left.filteredLines) >= 0
             THEN filterLoop(lines, mid + 1, hi, left)
             ELSE left

\* "if (!diff) return diff" is the empty text here; null never reaches it
filterDiffForAddedLines(diff) ==
    IF diff = <<>> THEN diff
    ELSE LET lines == split(diff)
         IN  join(filterLoop(lines, 1, Len(lines),
                    [filteredLines |-> <<>>, inFileHeader |-> FALSE]).filteredLines)

----------------------------------------------------------------------------
(* Answers of the remote evaluator.  An answer is described by a record    *)
(* (what the evaluator means to say) and rendered to the text the scripts  *)
(* receive; the scripts see the text only.                                 *)

MaxTokens == 2

RECURSIVE SeqsUpTo(_, _)
SeqsUpTo(S, n) ==
    IF n = 0 THEN { <<>> }
    ELSE LET shorter == SeqsUpTo(S, n - 1)
         IN  shorter \cup { Append(q, x) : q \in shorter, x \in S }

RECURSIVE concatAll(_)
concatAll(texts) ==
    IF Len(texts) = 0 THEN <<>> ELSE texts[1] \o concatAll(Tail(texts))

txIntro == <<"R", "e", "v", "i", "e", "w", ":", "\n">>

txOk == <<"\n", "o", "k", "\n">>

txApprovalUpper == <<"A", "P", "P", "R", "O", "V", "A", "L", "_", "S", "T", "A", "T", "U", "S", ":">>

txApprovalLower == <<"a", "p", "p", "r", "o", "v", "a", "l", "_", "s", "t", "a", "t", "u", "s", ":">>

\* the status lines an answer to the APPROVAL_STATUS prompt may hold: the
\* text, whether it is an APPROVAL_STATUS token, and the value it states
ApprovalTokens ==
    { [text |-> txApprovalUpper \o <<" ", "0">>, token |-> TRUE, value |-> 0],
      [text |-> txApprovalUpper \o <<" ", "1">>, token |-> TRUE, value |-> 1],
      [text |-> txApprovalUpper \o <<"\n", " ", "0">>, token |-> TRUE, value |-> 0],
      [text |-> txApprovalUpper \o <<"1">>, token |-> TRUE, value |-> 1],
      [text |-> txApprovalUpper \o <<" ", "o", "k">>, token |-> FALSE, value |-> 1],
      [text |-> txApprovalLower \o <<" ", "0">>, token |-> FALSE, value |-> 0] }

txStatusUpper == <<"*", "*", "S", "T", "A", "T", "U", "S", ":", "*", "*">>

txStatusMixed == <<"*", "*", "S", "t", "a", "t", "u", "s", ":", "*", "*">>

txStatusBare == <<"S", "T", "A", "T", "U", "S", ":">>

\* the status lines an answer to the pre-commit prompt may hold: the text,
\* whether it is a STATUS field with a value of the two, and that value
StatusTokens ==
    { [text |-> txStatusUpper \o <<" ", "P", "A", "S", "S">>, field |-> TRUE, value |-> "PASS"],
      [text |-> txStatusUpper \o <<" ", "F", "A", "I", "L">>, field |-> TRUE, value |-> "FAIL"],
      [text |-> txStatusMixed \o <<"\n", "f", "a", "i", "l">>, field |-> TRUE, value |-> "FAIL"],
      [text |-> txStatusUpper \o <<"F", "a", "i", "l">>, field |-> TRUE, value |-> "FAIL"],
      [text |-> txStatusUpper \o <<" ", "[", "F", "A", "I", "L", "]">>, field |-> FALSE, value |-> "FAIL"],
      [text |-> txStatusBare \o <<" ", "F", "A", "I", "L">>, field |-> FALSE, value |-> "FAIL"] }

renderTokens(tokens) ==
    txIntro \o concatAll([k \in 1..Len(tokens) |-> tokens[k].text \o txOk])

ApprovalReplies ==
    { [kind |-> "approval", tokens |-> q] : q \in SeqsUpTo(ApprovalTokens, MaxTokens) }

StatusReplies ==
    { [kind |-> "status", tokens |-> q] : q \in SeqsUpTo(StatusTokens, MaxTokens) }

\* a pictograph (the prompts put one before each category name) is written
\* "#": the module is ASCII, and no pattern of the scripts holds "#"
chPictograph == "#"

txAssessment == <<"*", "*", "O", "V", "E", "R", "A", "L", "L", " ", "A", "S", "S", "E", "S", "S", "M", "E", "N", "T", ":", "*", "*", " ">>

AssessmentTexts ==
    { [name |-> "NONE", text |-> <<>>],
      [name |-> "GOOD", text |-> txAssessment \o <<"G", "O", "O", "D", "\n">>],
      [name |-> "NEEDS_IMPROVEMENT",
       text |-> txAssessment \o <<"N", "E", "E", "D", "S", "_", "I", "M", "P", "R", "O", "V", "E", "M", "E", "N", "T", "\n">>],
      [name |-> "CRITICAL_ISSUES",
       text |-> txAssessment \o <<"C", "r", "i", "t", "i", "c", "a", "l", "_", "I", "s", "s", "u", "e", "s", "\n">>] }

txQuality == <<"C", "O", "D", "E", " ", "Q", "U", "A", "L", "I", "T", "Y">>

txPerformance == <<"P", "E", "R", "F", "O", "R", "M", "A", "N", "C", "E">>

txSecurity == <<"S", "E", "C", "U", "R", "I", "T", "Y">>

txTesting == <<"T", "E", "S", "T", "I", "N", "G">>

txDocumentation == <<"D", "O", "C", "U", "M", "E", "N", "T", "A", "T", "I", "O", "N">>

txDocumentationA11y == <<"D", "O", "C", "U", "M", "E", "N", "T", "A", "T", "I", "O", "N", " ", "&", " ", "A", "1", "1", "Y">>

txReact == <<"R", "E", "A", "C", "T", "/", "F", "R", "O", "N", "T", "E", "N", "D">>

txScoreOpen == <<" ", "[", "S", "c", "o", "r", "e", ":", " ">>

txScoreClose == <<"/", "1", "0", "]", " ", "-", " ", "n", "o", "t", "e", "s", "\n">>

\* a score an answer states, or leaves out
stated(n) == [present |-> TRUE, n |-> n]

unstated == [present |-> FALSE, n |-> 0]

digitsOf(n) ==
    IF n < 10 THEN <<Digits[n + 1]>>
    ELSE <<Digits[(n \div 10) + 1], Digits[(n % 10) + 1]>>

\* one category line: "**<NAME>:** [Score: N/10] - notes" in the plain
\* style, "**<pictograph> <NAME>:** [Score: N/10] - notes" in the style of
\* the RESPONSE FORMAT of the pre-push prompts; nothing when sc is unstated
scoreLine(style, plainName, promptName, sc) ==
    IF ~sc.present THEN <<>>
    ELSE <<"*", "*">>
           \o (IF style = "prompt" THEN <<chPictograph, " ">> \o promptName ELSE plainName)
           \o <<":", "*", "*">> \o txScoreOpen \o digitsOf(sc.n) \o txScoreClose

renderScores(r) ==
    txIntro
      \o (CHOOSE a \in AssessmentTexts : a.name = r.assessment).text
      \o scoreLine(r.style, txQuality, txQuality, r.quality)
      \o scoreLine(r.style, txPerformance, txPerformance, r.performance)
      \o scoreLine(r.style, txSecurity, txSecurity, r.security)
      \o scoreLine(r.style, txTesting, txTesting, r.rest)
      \o scoreLine(r.style, txDocumentation, txDocumentationA11y, r.rest)
      \o scoreLine(r.style, txReact, txReact, r.rest)

ScoreReplies ==
    { [kind |-> "scores", assessment |-> a.name, style |-> st,
       quality |-> q, security |-> sec, performance |-> perf, rest |-> rest] :
        a \in AssessmentTexts, st \in {"plain", "prompt"},
        q \in {unstated, stated(4), stated(5)},
        sec \in {unstated, stated(4), stated(5), stated(6)},
        perf \in {unstated, stated(3), stated(4)},
        rest \in {unstated, stated(9), stated(15)} }

txSyntaxHeading == <<"1", ".", " ", "S", "y", "n", "t", "a", "x", " ", "&", " ", "B", "u", "i", "l", "d", " ", "I", "s", "s", "u", "e", "s">>

txSecurityHeading == <<"2", ".", " ", "S", "e", "c", "u", "r", "i", "t", "y", " ", "V", "u", "l", "n", "e", "r", "a", "b", "i", "l", "i", "t", "i", "e", "s">>

txStyleHeading == <<"3", ".", " ", "C", "o", "d", "e", " ", "S", "t", "y", "l", "e", " ", "&", " ", "S", "t", "a", "n", "d", "a", "r", "d", "s">>

txQualitySection == <<"4", ".", " ", "C", "o", "d", "e", " ", "Q", "u", "a", "l", "i", "t", "y", "\n", "-", " ", "l", "o", "n", "g", " ", "f", "u", "n", "c", "t", "i", "o", "n", "\n">>

txBlockingYes == <<"B", "L", "O", "C", "K", "I", "N", "G", ":", " ", "Y", "E", "S", "\n">>

\* what a critical section of an answer may say: the text under the heading,
\* whether it holds a clean phrase, a bullet or issue word, a numbered line
SectionBodies ==
    { [name |-> "none", text |-> <<"N", "o", "n", "e", " ", "i", "d", "e", "n", "t", "i", "f", "i", "e", "d">>,
       clean |-> TRUE, marked |-> FALSE, numbered |-> FALSE],
      [name |-> "bullet", text |-> <<"-", " ", "h", "a", "r", "d", "c", "o", "d", "e", "d", " ", "A", "P", "I", " ", "k", "e", "y", " ", "f", "o", "u", "n", "d">>,
       clean |-> FALSE, marked |-> TRUE, numbered |-> FALSE],
      [name |-> "cleanBullet", text |-> <<"N", "o", " ", "i", "s", "s", "u", "e", "s", "\n", "-", " ", "t", "i", "d", "y">>,
       clean |-> TRUE, marked |-> TRUE, numbered |-> FALSE],
      [name |-> "word", text |-> <<"s", "y", "n", "t", "a", "x", " ", "e", "r", "r", "o", "r", " ", "i", "n", " ", "a", "p", "p">>,
       clean |-> FALSE, marked |-> TRUE, numbered |-> FALSE],
      [name |-> "plain", text |-> <<"L", "o", "o", "k", "s", " ", "f", "i", "n", "e">>,
       clean |-> FALSE, marked |-> FALSE, numbered |-> FALSE],
      [name |-> "numbered", text |-> <<"1", ".", " ", "h", "a", "r", "d", "c", "o", "d", "e", "d", " ", "k", "e", "y">>,
       clean |-> FALSE, marked |-> FALSE, numbered |-> TRUE] }

AbsentSection == [name |-> "absent", text |-> <<>>, clean |-> FALSE, marked |-> FALSE, numbered |-> FALSE]

sectionText(heading, body) ==
    IF body.name = "absent" THEN <<>> ELSE heading \o <<"\n">> \o body.text \o <<"\n">>

renderSections(r) ==
    txIntro
      \o sectionText(txSyntaxHeading, r.syntax)
      \o sectionText(txSecurityHeading, r.security)
      \o sectionText(txStyleHeading, r.style)
      \o txQualitySection
      \o (IF r.blockingYes THEN txBlockingYes ELSE <<>>)

SectionReplies ==
    { [kind |-> "sections", syntax |-> b1, security |-> b2, style |-> b3, blockingYes |-> y] :
        b1 \in SectionBodies \cup {AbsentSection},
        b2 \in SectionBodies \cup {AbsentSection},
        b3 \in {b \in SectionBodies : b.name \in {"none", "bullet"}} \cup {AbsentSection},
        y \in BOOLEAN }

txSecurityScore == <<"*", "*", "S", "E", "C", "U", "R", "I", "T", "Y", " ", "S", "C", "O", "R", "E", ":", "*", "*", " ", "[", "3", "/", "1", "0", "]", "\n">>

\* answers to a specialized prompt: with a score line, without one, and
\* answers in the formats of the two blocking prompts
SpecializedReplies ==
    { [kind |-> "specialized", text |-> txIntro \o txSecurityScore, score |-> stated(3)],
      [kind |-> "specialized", text |-> txIntro, score |-> unstated],
      [kind |-> "specialized", text |-> txIntro \o txStatusUpper \o <<" ", "F", "A", "I", "L", "\n">>, score |-> unstated],
      [kind |-> "specialized",
       text |-> txIntro \o txAssessment \o <<"C", "R", "I", "T", "I", "C", "A", "L", "_", "I", "S", "S", "U", "E", "S", "\n">>,
       score |-> unstated] }

NoReply == [kind |-> "none"]

render(r) ==
    CASE r.kind = "approval" -> renderTokens(r.tokens)
      [] r.kind = "status" -> renderTokens(r.tokens)
      [] r.kind = "scores" -> renderScores(r)
      [] r.kind = "sections" -> renderSections(r)
      [] r.kind = "specialized" -> r.text

----------------------------------------------------------------------------
(* Diffs handed to the normalizer: runs of lines of a few shapes.          *)

MaxBlocks == 2

lnHeaderX == <<"d", "i", "f", "f", " ", "-", "-", "g", "i", "t", " ", "a", "/", "x", " ", "b", "/", "x">>

lnHeaderY == <<"d", "i", "f", "f", " ", "-", "-", "g", "i", "t", " ", "a", "/", "x", " ", "b", "/", "y">>

lnOldFile == <<"-", "-", "-", " ", "a", "/", "x">>

lnNewFile == <<"+", "+", "+", " ", "b", "/", "x">>

lnHunk == <<"@", "@", " ", "-", "1", " ", "+", "1", " ", "@", "@">>

lnContext == <<" ", "c">>

lnAddA == <<"+", "a">>

lnAddB == <<"+", " ", "b", ";", " ", "\r">>

lnAddBlank == <<"+", " ", "\t">>

lnAddIncrement == <<"+", "+", "+", "i">>

lnDelC == <<"-", "c">>

lnDelDecrement == <<"-", "-", "-", "j">>

lnAddLong(n) == <<"+">> \o Repeat("w", n)

lnDelLong(n) == <<"-", " ">> \o Repeat("w", n)

SingleLines ==
    { lnHeaderX, lnHeaderY, lnOldFile, lnNewFile, lnHunk, lnContext,
      lnAddA, lnAddB, lnAddBlank, lnAddIncrement, lnDelC, lnDelDecrement,
      lnAddLong(LINE_LENGTH_LIMIT - 1), lnAddLong(LINE_LENGTH_LIMIT),
      lnDelLong(LINE_LENGTH_LIMIT) }

RepeatedLines == { lnAddA, lnAddBlank, lnDelC }

\* a block is a run of equal lines: one line, or as many as the cap allows
Blocks ==
    { <<ln>> : ln \in SingleLines }
      \cup { Repeat(ln, MAX_CHANGES_PER_TYPE) : ln \in RepeatedLines }

RECURSIVE BlockLines(_)
BlockLines(n) ==
    IF n = 0 THEN { <<>> }
    ELSE LET shorter == BlockLines(n - 1)
         IN  shorter \cup { ls \o b : ls \in shorter, b \in Blocks }

lnNoNewline == <<"\\", " ", "N", "o", " ", "n", "e", "w", "l", "i", "n", "e">>

\* a diff with context right under a header, a line of no kind, an empty
\* line, and a removed line between kept ones
dMixed == join(<<lnHeaderX, lnContext, lnNoNewline, <<>>, lnDelC, lnAddA, lnContext>>)

\* a diff that goes from one file to another and back
dTwoFiles == join(<<lnHeaderX, lnAddA, lnHeaderY, lnDelC, lnAddB, lnHeaderX, lnAddA>>)

DiffInputs ==
    { join(ls) : ls \in BlockLines(MaxBlocks) \ { <<>> } }
      \cup { <<>>, <<" ", "\n">>, dMixed, dTwoFiles }

----------------------------------------------------------------------------
(* What git prints, and what the scripts make of it.                       *)

\* a diff with a header, context, one addition and two deletions
dChange == join(<<lnHeaderX, lnOldFile, lnNewFile, lnHunk, lnContext, lnDelC, lnAddA, lnDelDecrement>>)

\* a diff whose only line is a deletion
dDeletion == lnDelC

\* a diff that names a file and changes no line (a mode change)
dHeader == lnHeaderX

dBlank == <<" ", "\n">>

PipelineDiffs == { <<>>, dBlank, dHeader, dDeletion, dChange }

\* outcome of one execSync: it throws, or returns what git printed
Thrown == [failed |-> TRUE, text |-> <<>>]

Printed(t) == [failed |-> FALSE, text |-> t]

GitDiffOutputs == { Thrown } \cup { Printed(d) : d \in PipelineDiffs }

GitNameOutputs == { Thrown, Printed(<<>>), Printed(<<"x", "\n", "y", "\n">>) }

\* the refs "git rev-parse --verify" is asked about
BaseRefs == { "origin/main", "origin/master", "main", "master" }

\* a diff value of the scripts: null, or a text
Null == [isNull |-> TRUE, text |-> <<>>]

Some(t) == [isNull |-> FALSE, text |-> t]

\* !diff || diff.trim().length === 0
\* only null counts as "no diff"
isNullOnly(d) == d.isNull

isBlank(d) == d.isNull \/ Len(trim(d.text)) = 0

\* !diff
isFalsy(d) == d.isNull \/ d.text = <<>>

\* files.trim().split('\n').filter(file => file.length > 0)
fileList(text) == SelectSeq(split(trim(text)), LAMBDA file : Len(file) > 0)

\* nothing asked of git yet
NoRepo == [refs |-> {}, branchOut |-> Thrown, headOut |-> Thrown]

\* getDiff of the unified entry point, and the base it compared with
\* only the remote branches are tried
getDiffBaseRemoteOnly(refs) ==
    IF "origin/main" \in refs THEN "origin/main"
    ELSE IF "origin/master" \in refs THEN "origin/master"
    ELSE "HEAD~1"

getDiffBase(refs) ==
    IF "origin/main" \in refs THEN "origin/main"
    ELSE IF "origin/master" \in refs THEN "origin/master"
    ELSE IF "main" \in refs THEN "main"
    ELSE IF "master" \in refs THEN "master"
    ELSE "HEAD~1"

getDiff(type, staged, branchOut, headOut) ==
    IF type = "precommit"
    THEN IF staged.failed \/ Len(trim(staged.text)) = 0 THEN Null ELSE Some(staged.text)
    ELSE IF branchOut.failed THEN Null
    ELSE IF Len(trim(branchOut.text)) = 0
    THEN IF headOut.failed THEN Null
         ELSE IF Len(trim(headOut.text)) > 0 THEN Some(headOut.text)
         ELSE Some(branchOut.text)
    ELSE Some(branchOut.text)

\* whether getDiff went through its catch block
getDiffThrew(type, staged, branchOut, headOut) ==
    IF type = "precommit" THEN staged.failed
    ELSE \/ branchOut.failed
         \/ Len(trim(branchOut.text)) = 0 /\ headOut.failed

\* getChangedFiles of the unified entry point
getChangedFiles(type, stagedNames, parentNames, headNames, unstagedNames) ==
    IF type = "precommit"
    THEN IF stagedNames.failed THEN <<>> ELSE fileList(stagedNames.text)
    ELSE IF parentNames.failed /\ headNames.failed THEN <<>>
    ELSE LET files == IF parentNames.failed THEN headNames.text ELSE parentNames.text
             changed == fileList(files)
         IN  IF Len(changed) = 0
             THEN IF unstagedNames.failed THEN <<>>
                  ELSE IF Len(fileList(unstagedNames.text)) > 0
                  THEN fileList(unstagedNames.text)
                  ELSE changed
             ELSE changed

\* whether a command of getChangedFiles threw (the first listing has a
\* fallback of its own, the others end in the catch block)
getChangedFilesThrew(type, stagedNames, parentNames, headNames, unstagedNames) ==
    IF type = "precommit" THEN stagedNames.failed
    ELSE \/ parentNames.failed
         \/ Len(fileList(parentNames.text)) = 0 /\ unstagedNames.failed

\* getGitChanges of the two single-purpose scripts
getGitChanges(stagedOut, unstagedOut, originOut, parentOut) ==
    IF stagedOut.failed \/ unstagedOut.failed
    THEN [staged |-> <<>>, unstaged |-> <<>>, push |-> <<>>]
    ELSE [staged |-> stagedOut.text, unstaged |-> unstagedOut.text,
          push |-> IF ~originOut.failed THEN originOut.text
                   ELSE IF ~parentOut.failed THEN parentOut.text
                   ELSE stagedOut.text]

\* the switch of main in the two single-purpose scripts
diffToAnalyze(type, changes) ==
    IF type = "precommit" THEN changes.staged
    ELSE IF type = "prepush" THEN changes.push
    ELSE IF changes.staged # <<>> THEN changes.staged ELSE changes.push

\* getGitDiff of the pre-push script, and the base it compared with
getGitDiffBase(refs) ==
    IF "origin/main" \in refs THEN "origin/main"
    ELSE IF "origin/master" \in refs THEN "origin/master"
    ELSE "HEAD~1"

getGitDiff(branchOut) == IF branchOut.failed THEN Null ELSE Some(branchOut.text)

\* getStagedDiff of the pre-commit script
getStagedDiff(stagedOut) == IF stagedOut.failed THEN Null ELSE Some(stagedOut.text)

\* getChangedFiles of the pre-push script, getStagedFiles of the pre-commit one
getNames(namesOut) == IF namesOut.failed THEN <<>> ELSE fileList(namesOut.text)

----------------------------------------------------------------------------
(* Review profiles (review-config.js).                                     *)

ReviewTypes ==
    { "precommit", "prepush", "security", "performance", "accessibility",
      "testing", "documentation" }

\* reviewTypes[type].blocking
blocking(type) ==
    CASE type = "precommit" -> { "syntax_errors", "security_critical" }
      [] type = "prepush" -> { "security", "code_quality" }
      [] type = "security" -> { "security_vulnerabilities" }
      [] OTHER -> {}

----------------------------------------------------------------------------
(* The run of one script: from its start to the exit of the process.       *)

Entries == { "unified", "approval", "sections", "codereview", "precommitfast" }

NoArg == "(none)"

\* a property name every object literal inherits from Object.prototype: the
\* lookup reviewTypes[name] gives a function for it, never undefined
InheritedNames == { "constructor" }

\* reviewTypes[reviewType] is truthy
hasProfile(type) == type \in ReviewTypes \cup InheritedNames

\* process.argv[2], where the script reads it
Args(e) ==
    IF e = "unified" THEN ReviewTypes \cup InheritedNames \cup { NoArg, "release" }
    ELSE IF e \in { "approval", "sections" } THEN { NoArg, "precommit", "prepush", "all" }
    ELSE { NoArg }

\* process.argv[2] || 'prepush'
argOrDefault(arg) == IF arg = NoArg THEN "prepush" ELSE arg

\* the answers the remote evaluator may give to the prompt of a script
Replies(e, type) ==
    CASE e = "approval" -> ApprovalReplies
      [] e = "sections" -> SectionReplies
      [] e = "codereview" -> ScoreReplies
      [] e = "precommitfast" -> StatusReplies
      [] e = "unified" /\ type = "precommit" -> StatusReplies
      [] e = "unified" /\ type = "prepush" -> ScoreReplies
      [] OTHER -> SpecializedReplies

\* the answers that may still arrive after the timeout has won the race
LateReplies == SpecializedReplies

ErrorKinds == { "network", "auth" }

PROMPT_LIST_LIMIT == 20

\* records.slice(0, n)
slice(records, n) == SubSeq(records, 1, Minimum({n, Len(records)}))

\* what a prompt carries of the change: the diff text (unified, pre-push and
\* pre-commit scripts) or the listed records (createReviewPrompt)
NoPrompt == [sent |-> FALSE, diff |-> <<>>, additions |-> <<>>, deletions |-> <<>>]

DiffPrompt(text) == [sent |-> TRUE, diff |-> text, additions |-> <<>>, deletions |-> <<>>]

createReviewPrompt(additions, deletions) ==
    [sent |-> TRUE, diff |-> <<>>,
     additions |-> slice(additions, PROMPT_LIST_LIMIT),
     deletions |-> slice(deletions, PROMPT_LIST_LIMIT)]

NoResult == [made |-> FALSE, success |-> TRUE, noChanges |-> FALSE, error |-> FALSE]

Result(success, noChanges, error) ==
    [made |-> TRUE, success |-> success, noChanges |-> noChanges, error |-> error]

\* the entries that read the index, and those that read its file list too
readsStagedDiff(e, type) ==
    \/ e \in { "approval", "sections", "precommitfast" }
    \/ e = "unified" /\ type = "precommit"

readsStagedNames(e, type) ==
    \/ e = "precommitfast"
    \/ e = "unified" /\ type = "precommit"

\* what "git diff --cached" and "git diff --cached --name-only" give in the
\* repository the script runs in; an empty index where the run never asks
Stagings(e, type) ==
    { [diff |-> d, names |-> n] :
        d \in IF readsStagedDiff(e, type) THEN GitDiffOutputs ELSE { Printed(<<>>) },
        n \in IF readsStagedNames(e, type) THEN GitNameOutputs ELSE { Printed(<<>>) } }

inputVars == <<entry, reviewType, hasApiKey, staging>>

gitVars == <<gitTouched, gitFailed, baseBranch, repo, mainDiff, changedFiles>>

remoteVars == <<prompt, call, timer, calls, outcome, reply, response>>

logVars == <<logs, logStatus, crashed>>

normVars == <<rawDiff, bundle, filtered, phase>>

vars ==
    <<entry, reviewType, hasApiKey, staging, pc, gitTouched, gitFailed, baseBranch, repo,
      mainDiff, changedFiles,
      prompt, call, timer, calls, outcome, reply, response,
      result, logs, logStatus, crashed, exitCode, rawDiff, bundle, filtered, phase>>

NoBundle == [additions |-> <<>>, deletions |-> <<>>, files |-> <<>>, none |-> TRUE]

\* the script has not started any work
Idle ==
    /\ pc = "start"
    /\ gitTouched = FALSE
    /\ gitFailed = FALSE
    /\ baseBranch = "none"
    /\ repo = NoRepo
    /\ mainDiff = Null
    /\ changedFiles = <<>>
    /\ prompt = NoPrompt
    /\ call = "none"
    /\ timer = "none"
    /\ calls = 0
    /\ outcome = "none"
    /\ reply = NoReply
    /\ response = <<>>
    /\ result = NoResult
    /\ logs = 0
    /\ logStatus = "none"
    /\ crashed = FALSE
    /\ exitCode = -1

Init ==
    /\ entry \in Entries
    /\ reviewType \in { argOrDefault(a) : a \in Args(entry) }
    /\ hasApiKey \in BOOLEAN
    /\ staging \in Stagings(entry, reviewType)
    /\ Idle
    /\ rawDiff = <<>>
    /\ bundle = NoBundle
    /\ filtered = <<>>
    /\ phase = "idle"

\* process.exit(code)
Exit(code) ==
    /\ pc' = "exited"
    /\ exitCode' = code

Goto(label) ==
    /\ pc' = label
    /\ UNCHANGED exitCode

\* the request is sent, and sent again at once
SendWithRetry(request, withTimer) ==
    /\ prompt' = request
    /\ call' = "pending"
    /\ timer' = IF withTimer THEN "armed" ELSE "none"
    /\ calls' = calls + 2
    /\ UNCHANGED <<outcome, reply, response>>

\* the request is sent; the unified entry point races it against a timer
Send(request, withTimer) ==
    /\ prompt' = request
    /\ call' = "pending"
    /\ timer' = IF withTimer THEN "armed" ELSE "none"
    /\ calls' = calls + 1
    /\ UNCHANGED <<outcome, reply, response>>

----------------------------------------------------------------------------
(* The unified entry point (main, performReview, saveReviewLog).           *)

\* exit code of main when there is nothing staged or nothing changed
nothingToReviewCodeLenient(type) == 0

nothingToReviewCode(type) == IF type = "precommit" THEN 1 ELSE 0

\* a performReview that reads the STATUS line of every profile but prepush
reviewSuccessByStatus(type, review) ==
    IF type = "prepush"
    THEN ~shouldBlock(matchAssessment(review), extractScores(review))
    ELSE matchStatus(review) = "PASS"

\* result.success of performReview when the evaluator has answered
reviewSuccess(type, review) ==
    IF type = "precommit" THEN matchStatus(review) = "PASS"
    ELSE IF type = "prepush"
    THEN ~shouldBlock(matchAssessment(review), extractScores(review))
    ELSE TRUE

\* shouldBlock of performReview's catch block
failureBlocks(type) == blocking(type) # {} /\ type = "precommit"

\* exit code of the handler of main().catch in a script whose handler blocks
handlerCodeBlocking(script) == 1

\* exit code of the handler of main().catch: the precommit fast path lets
\* the commit go on, the other scripts exit with 1
handlerCode(script) == IF script = "precommitfast" THEN 0 ELSE 1

\* exit code of main when OPENAI_API_KEY is not set
missingKeyCodeStrict(type) == 1

missingKeyCode(type) == IF type = "precommit" THEN 0 ELSE 1

CheckReviewType ==
    /\ entry = "unified" /\ pc = "start"
    /\ IF ~hasProfile(reviewType) THEN Exit(1) ELSE Goto("key")
    /\ UNCHANGED <<inputVars, gitVars, remoteVars, result, logVars, normVars>>

UnifiedCheckApiKey ==
    /\ entry = "unified" /\ pc = "key"
    /\ IF ~hasApiKey THEN Exit(missingKeyCode(reviewType)) ELSE Goto("diff")
    /\ UNCHANGED <<inputVars, gitVars, remoteVars, result, logVars, normVars>>

MainGetDiff ==
    /\ entry = "unified" /\ pc = "diff"
    /\ IF reviewType = "precommit"
       THEN /\ mainDiff' = getDiff(reviewType, staging.diff, Thrown, Thrown)
            /\ gitFailed' = getDiffThrew(reviewType, staging.diff, Thrown, Thrown)
            /\ baseBranch' = "none"
            /\ repo' = NoRepo
       ELSE \E refs \in SUBSET BaseRefs, branchOut \in GitDiffOutputs, headOut \in GitDiffOutputs :
                /\ mainDiff' = getDiff(reviewType, staging.diff, branchOut, headOut)
                /\ gitFailed' = getDiffThrew(reviewType, staging.diff, branchOut, headOut)
                /\ baseBranch' = getDiffBase(refs)
                /\ repo' = [refs |-> refs, branchOut |-> branchOut, headOut |-> headOut]
    /\ gitTouched' = TRUE
    /\ Goto("files")
    /\ UNCHANGED <<inputVars, changedFiles, remoteVars, result, logVars, normVars>>

\* baseBranch and the outputs are locals of getDiff: gone once main goes on
MainGetChangedFiles ==
    /\ entry = "unified" /\ pc = "files"
    /\ IF reviewType = "precommit"
       THEN /\ changedFiles' = getChangedFiles(reviewType, staging.names, Thrown, Thrown, Thrown)
            /\ gitFailed' = (gitFailed \/ getChangedFilesThrew(reviewType, staging.names,
                                                               Thrown, Thrown, Thrown))
       ELSE \E parentNames \in GitNameOutputs, headNames \in GitNameOutputs,
               unstagedNames \in GitNameOutputs :
                /\ changedFiles' = getChangedFiles(reviewType, staging.names, parentNames,
                                                   headNames, unstagedNames)
                /\ gitFailed' = (gitFailed \/ getChangedFilesThrew(reviewType, staging.names,
                                                  parentNames, headNames, unstagedNames))
    /\ baseBranch' = "none"
    /\ repo' = NoRepo
    /\ Goto("check")
    /\ UNCHANGED <<inputVars, gitTouched, mainDiff, remoteVars, result, logVars, normVars>>

UnifiedCheckChanges ==
    /\ entry = "unified" /\ pc = "check"
    /\ IF isBlank(mainDiff) \/ Len(changedFiles) = 0
       THEN Exit(nothingToReviewCode(reviewType))
       ELSE Goto("review")
    /\ UNCHANGED <<inputVars, gitVars, remoteVars, result, logVars, normVars>>

\* main filters the diff, performReview filters it again for precommit. With
\* an inherited name config is a function without focus or blocking: building
\* the request throws inside the try block, config.blocking.length throws
\* inside the catch block, and the rejection reaches main().catch
PerformReviewStart ==
    /\ entry = "unified" /\ pc = "review"
    /\ LET filteredDiff == filterDiffForAddedLines(mainDiff.text)
       IN  IF Len(trim(filteredDiff)) = 0
           THEN /\ result' = Result(TRUE, TRUE, FALSE)
                /\ Goto("finish")
                /\ UNCHANGED <<remoteVars, logVars>>
           ELSE IF reviewType \in InheritedNames
           THEN /\ crashed' = TRUE
                /\ Exit(handlerCode(entry))
                /\ UNCHANGED <<remoteVars, result, logs, logStatus>>
           ELSE /\ Send(DiffPrompt(IF reviewType = "precommit"
                                   THEN filterDiffForAddedLines(filteredDiff)
                                   ELSE filteredDiff), TRUE)
                /\ Goto("await")
                /\ UNCHANGED <<result, logVars>>
    /\ UNCHANGED <<inputVars, gitVars, normVars>>

PerformReviewSettles ==
    /\ entry = "unified" /\ pc = "await" /\ outcome # "none"
    /\ result' = IF outcome = "response"
                 THEN Result(reviewSuccess(reviewType, response), FALSE, FALSE)
                 ELSE Result(~failureBlocks(reviewType), FALSE, TRUE)
    /\ Goto("log")
    /\ UNCHANGED <<inputVars, gitVars, remoteVars, logVars, normVars>>

\* a saveReviewLog that keeps a log of failed reviews only
UnifiedSaveReviewLogFailuresOnly ==
    /\ entry = "unified" /\ pc = "log"
    /\ IF result.success
       THEN UNCHANGED <<logs, logStatus>>
       ELSE logs' = logs + 1 /\ logStatus' = "FAILED"
    /\ Goto("finish")
    /\ UNCHANGED <<inputVars, gitVars, remoteVars, result, crashed, normVars>>

\* saveReviewLog; a write that throws reaches the handler of main().catch
UnifiedSaveReviewLog ==
    /\ entry = "unified" /\ pc = "log"
    /\ \/ /\ logs' = logs + 1
          /\ logStatus' = IF result.success THEN "PASSED" ELSE "FAILED"
          /\ Goto("finish")
          /\ UNCHANGED crashed
       \/ /\ crashed' = TRUE
          /\ Exit(handlerCode(entry))
          /\ UNCHANGED <<logs, logStatus>>
    /\ UNCHANGED <<inputVars, gitVars, remoteVars, result, normVars>>

UnifiedFinish ==
    /\ entry = "unified" /\ pc = "finish"
    /\ IF ~result.success THEN Exit(1) ELSE Goto("draining")
    /\ UNCHANGED <<inputVars, gitVars, remoteVars, result, logVars, normVars>>

----------------------------------------------------------------------------
(* The two single-purpose scripts: APPROVAL_STATUS and category sections.  *)

ScriptCheckApiKey ==
    /\ entry \in { "approval", "sections" } /\ pc = "start"
    /\ IF ~hasApiKey THEN Exit(1) ELSE Goto("diff")
    /\ UNCHANGED <<inputVars, gitVars, remoteVars, result, logVars, normVars>>

ScriptGetGitChanges ==
    /\ entry \in { "approval", "sections" } /\ pc = "diff"
    /\ \E unstagedOut \in GitDiffOutputs, originOut \in GitDiffOutputs,
          parentOut \in GitDiffOutputs :
            /\ mainDiff' = Some(diffToAnalyze(reviewType,
                              getGitChanges(staging.diff, unstagedOut, originOut, parentOut)))
            /\ gitFailed' = (staging.diff.failed \/ unstagedOut.failed \/ originOut.failed)
    /\ gitTouched' = TRUE
    /\ Goto("check")
    /\ UNCHANGED <<inputVars, baseBranch, repo, changedFiles, remoteVars, result, logVars, normVars>>

ScriptCheckChanges ==
    /\ entry \in { "approval", "sections" } /\ pc = "check"
    /\ IF Len(trim(mainDiff.text)) = 0 THEN Exit(0)
       ELSE LET parsed == parseDiff(mainDiff.text)
            IN  IF Len(parsed.additions) = 0 /\ Len(parsed.deletions) = 0
                THEN Exit(0)
                ELSE Goto("review")
    /\ UNCHANGED <<inputVars, gitVars, remoteVars, result, logVars, normVars>>

ScriptStartReview ==
    /\ entry \in { "approval", "sections" } /\ pc = "review"
    /\ LET parsed == parseDiff(mainDiff.text)
       IN  Send(createReviewPrompt(parsed.additions, parsed.deletions), FALSE)
    /\ Goto("await")
    /\ UNCHANGED <<inputVars, gitVars, result, logVars, normVars>>

\* the rest of main of the APPROVAL_STATUS script
ApprovalReviewSettles ==
    /\ entry = "approval" /\ pc = "await" /\ outcome # "none"
    /\ LET hasBlockingIssues == outcome = "response" /\ checkForCriticalIssues(response)
       IN  /\ result' = Result(~hasBlockingIssues, FALSE, outcome # "response")
           /\ Exit(IF hasBlockingIssues THEN 1 ELSE 0)
    /\ UNCHANGED <<inputVars, gitVars, remoteVars, logVars, normVars>>

\* the rest of main of the category-section script
SectionsReviewSettles ==
    /\ entry = "sections" /\ pc = "await" /\ outcome # "none"
    /\ LET hasBlockingIssues == outcome = "response" /\ hasBlockingIssuesBySection(response)
       IN  /\ result' = Result(~hasBlockingIssues, FALSE, outcome # "response")
           /\ Exit(IF hasBlockingIssues THEN 1 ELSE 0)
    /\ UNCHANGED <<inputVars, gitVars, remoteVars, logVars, normVars>>

----------------------------------------------------------------------------
(* The pre-push script (ai-code-review.js).                                *)

CodeReviewCheckApiKey ==
    /\ entry = "codereview" /\ pc = "start"
    /\ IF ~hasApiKey THEN Exit(1) ELSE Goto("diff")
    /\ UNCHANGED <<inputVars, gitVars, remoteVars, result, logVars, normVars>>

CodeReviewReadGit ==
    /\ entry = "codereview" /\ pc = "diff"
    /\ \E refs \in SUBSET BaseRefs, branchOut \in GitDiffOutputs, namesOut \in GitNameOutputs :
            /\ baseBranch' = getGitDiffBase(refs)
            /\ repo' = NoRepo
            /\ mainDiff' = getGitDiff(branchOut)
            /\ changedFiles' = getNames(namesOut)
            /\ gitFailed' = (branchOut.failed \/ namesOut.failed)
    /\ gitTouched' = TRUE
    /\ Goto("check")
    /\ UNCHANGED <<inputVars, remoteVars, result, logVars, normVars>>

CodeReviewCheckDiff ==
    /\ entry = "codereview" /\ pc = "check"
    /\ IF isFalsy(mainDiff) THEN Exit(0) ELSE Goto("review")
    /\ baseBranch' = "none"
    /\ UNCHANGED <<inputVars, gitTouched, gitFailed, repo, mainDiff, changedFiles, remoteVars, result,
                   logVars, normVars>>

ReviewCodeStart ==
    /\ entry = "codereview" /\ pc = "review"
    /\ IF isBlank(mainDiff)
       THEN /\ result' = Result(TRUE, TRUE, FALSE)
            /\ Goto("log")
            /\ UNCHANGED remoteVars
       ELSE /\ Send(DiffPrompt(mainDiff.text), FALSE)
            /\ Goto("await")
            /\ UNCHANGED result
    /\ UNCHANGED <<inputVars, gitVars, logVars, normVars>>

ReviewCodeSettles ==
    /\ entry = "codereview" /\ pc = "await" /\ outcome # "none"
    /\ result' = IF outcome = "response"
                 THEN Result(~shouldBlock(matchAssessment(response), extractScores(response)),
                             FALSE, FALSE)
                 ELSE Result(TRUE, FALSE, TRUE)
    /\ Goto("log")
    /\ UNCHANGED <<inputVars, gitVars, remoteVars, logVars, normVars>>

\* the log of this script carries no status line
CodeReviewSaveLog ==
    /\ entry = "codereview" /\ pc = "log"
    /\ \/ /\ logs' = logs + 1
          /\ Goto("finish")
          /\ UNCHANGED <<logStatus, crashed>>
       \/ /\ crashed' = TRUE
          /\ Exit(handlerCode(entry))
          /\ UNCHANGED <<logs, logStatus>>
    /\ UNCHANGED <<inputVars, gitVars, remoteVars, result, normVars>>

CodeReviewFinish ==
    /\ entry = "codereview" /\ pc = "finish"
    /\ IF ~result.success THEN Exit(1) ELSE Goto("draining")
    /\ UNCHANGED <<inputVars, gitVars, remoteVars, result, logVars, normVars>>

----------------------------------------------------------------------------
(* The pre-commit fast-path script (ai-precommit-review.js).               *)

\* whether a status makes quickReviewCode block
statusBlocksAlways(status) == TRUE

statusShouldBlock(status) == status = "FAIL"

PrecommitCheckApiKey ==
    /\ entry = "precommitfast" /\ pc = "start"
    /\ IF ~hasApiKey THEN Exit(0) ELSE Goto("diff")
    /\ UNCHANGED <<inputVars, gitVars, remoteVars, result, logVars, normVars>>

PrecommitReadGit ==
    /\ entry = "precommitfast" /\ pc = "diff"
    /\ mainDiff' = getStagedDiff(staging.diff)
    /\ changedFiles' = getNames(staging.names)
    /\ gitFailed' = (staging.diff.failed \/ staging.names.failed)
    /\ gitTouched' = TRUE
    /\ Goto("check")
    /\ UNCHANGED <<inputVars, baseBranch, repo, remoteVars, result, logVars, normVars>>

PrecommitCheckDiff ==
    /\ entry = "precommitfast" /\ pc = "check"
    /\ IF isBlank(mainDiff) THEN Exit(0) ELSE Goto("review")
    /\ UNCHANGED <<inputVars, gitVars, remoteVars, result, logVars, normVars>>

QuickReviewStart ==
    /\ entry = "precommitfast" /\ pc = "review"
    /\ IF isBlank(mainDiff)
       THEN /\ result' = Result(TRUE, TRUE, FALSE)
            /\ Goto("log")
            /\ UNCHANGED remoteVars
       ELSE /\ Send(DiffPrompt(mainDiff.text), FALSE)
            /\ Goto("await")
            /\ UNCHANGED result
    /\ UNCHANGED <<inputVars, gitVars, logVars, normVars>>

QuickReviewSettles ==
    /\ entry = "precommitfast" /\ pc = "await" /\ outcome # "none"
    /\ result' = IF outcome = "response"
                 THEN Result(~statusShouldBlock(matchStatus(response)), FALSE, FALSE)
                 ELSE Result(TRUE, FALSE, TRUE)
    /\ Goto("log")
    /\ UNCHANGED <<inputVars, gitVars, remoteVars, logVars, normVars>>

\* the log of this script carries no status line; its top-level handler
\* lets the commit through
PrecommitSaveLog ==
    /\ entry = "precommitfast" /\ pc = "log"
    /\ \/ /\ logs' = logs + 1
          /\ Goto("finish")
          /\ UNCHANGED <<logStatus, crashed>>
       \/ /\ crashed' = TRUE
          /\ Exit(handlerCode(entry))
          /\ UNCHANGED <<logs, logStatus>>
    /\ UNCHANGED <<inputVars, gitVars, remoteVars, result, normVars>>

PrecommitFinish ==
    /\ entry = "precommitfast" /\ pc = "finish"
    /\ IF ~result.success THEN Exit(1) ELSE Goto("draining")
    /\ UNCHANGED <<inputVars, gitVars, remoteVars, result, logVars, normVars>>

----------------------------------------------------------------------------
(* The remote evaluator, the timer, and the end of the process.            *)

\* the first of response, rejection and timeout settles the awaited promise
\* the last one to settle decides
settleLast(kind) == kind

settle(kind) == IF outcome = "none" THEN kind ELSE outcome

RemoteResolves ==
    /\ call = "pending" /\ pc # "exited"
    /\ \E r \in IF outcome = "none" THEN Replies(entry, reviewType) ELSE LateReplies :
            /\ reply' = r
            /\ response' = render(r)
    /\ call' = "resolved"
    /\ outcome' = settle("response")
    /\ UNCHANGED <<inputVars, pc, exitCode, gitVars, prompt, timer, calls, result, logVars, normVars>>

RemoteRejects ==
    /\ call = "pending" /\ pc # "exited"
    /\ \E kind \in ErrorKinds : outcome' = settle(kind)
    /\ call' = "rejected"
    /\ UNCHANGED <<inputVars, pc, exitCode, gitVars, prompt, timer, calls, reply, response,
                   result, logVars, normVars>>

TimerFires ==
    /\ timer = "armed" /\ pc # "exited"
    /\ timer' = "fired"
    /\ outcome' = settle("timeout")
    /\ UNCHANGED <<inputVars, pc, exitCode, gitVars, prompt, call, calls, reply, response,
                   result, logVars, normVars>>

\* main has returned: the process ends with code 0 once nothing is pending
ProcessEnds ==
    /\ pc = "draining" /\ timer # "armed" /\ call # "pending"
    /\ Exit(0)
    /\ UNCHANGED <<inputVars, gitVars, remoteVars, result, logVars, normVars>>

Next ==
    \/ CheckReviewType \/ UnifiedCheckApiKey \/ MainGetDiff \/ MainGetChangedFiles
    \/ UnifiedCheckChanges \/ PerformReviewStart \/ PerformReviewSettles
    \/ UnifiedSaveReviewLog \/ UnifiedFinish
    \/ ScriptCheckApiKey \/ ScriptGetGitChanges \/ ScriptCheckChanges \/ ScriptStartReview
    \/ ApprovalReviewSettles \/ SectionsReviewSettles
    \/ CodeReviewCheckApiKey \/ CodeReviewReadGit \/ CodeReviewCheckDiff
    \/ ReviewCodeStart \/ ReviewCodeSettles \/ CodeReviewSaveLog \/ CodeReviewFinish
    \/ PrecommitCheckApiKey \/ PrecommitReadGit \/ PrecommitCheckDiff
    \/ QuickReviewStart \/ QuickReviewSettles \/ PrecommitSaveLog \/ PrecommitFinish
    \/ RemoteResolves \/ RemoteRejects \/ TimerFires \/ ProcessEnds

Spec == Init /\ [][Next]_vars

\* the steps of the unified entry point itself
UnifiedStep ==
    \/ CheckReviewType \/ UnifiedCheckApiKey \/ MainGetDiff \/ MainGetChangedFiles
    \/ UnifiedCheckChanges \/ PerformReviewStart \/ PerformReviewSettles
    \/ UnifiedSaveReviewLog \/ UnifiedFinish \/ ProcessEnds

InitUnified == Init /\ entry = "unified"

NextUnified == UnifiedStep \/ RemoteResolves \/ RemoteRejects \/ TimerFires

\* main has a step to take: the synchronous code between two awaits always
\* can run, the await of performReview resumes once the race has settled,
\* and node leaves once main has returned and no timer or request is pending
UnifiedReady ==
    /\ entry = "unified"
    /\ \/ pc \in { "start", "key", "diff", "files", "check", "review", "log", "finish" }
       \/ pc = "await" /\ outcome # "none"
       \/ pc = "draining" /\ timer # "armed" /\ call # "pending"

\* weak fairness of the script's own steps, with their enabling condition
\* written out as UnifiedReady; an armed timer fires; nothing makes the
\* remote service answer
SpecUnifiedLive ==
    /\ InitUnified /\ [][NextUnified]_vars
    /\ (<>[]UnifiedReady => []<><<UnifiedStep>>_vars)
    /\ WF_vars(TimerFires)

----------------------------------------------------------------------------
(* The normalizer run: a diff is drawn, then parsed.                       *)

InitDiff ==
    /\ rawDiff \in DiffInputs
    /\ bundle = NoBundle
    /\ filtered = <<>>
    /\ phase = "raw"
    /\ entry = "none"
    /\ reviewType = "none"
    /\ hasApiKey = FALSE
    /\ staging = [diff |-> Printed(<<>>), names |-> Printed(<<>>)]
    /\ Idle

ParseDiff ==
    /\ phase = "raw"
    /\ bundle' = parseDiff(rawDiff)
    /\ phase' = "parsed"
    /\ UNCHANGED <<rawDiff, filtered, inputVars, pc, exitCode, gitVars, remoteVars, result, logVars>>

\* the same diff goes through the additions-only rewrite
FilterDiff ==
    /\ phase = "parsed"
    /\ filtered' = filterDiffForAddedLines(rawDiff)
    /\ phase' = "filtered"
    /\ UNCHANGED <<rawDiff, bundle, inputVars, pc, exitCode, gitVars, remoteVars, result, logVars>>

\* the rewrite is applied to its own output, as for a precommit review
FilterAgain ==
    /\ phase = "filtered"
    /\ filtered' = filterDiffForAddedLines(filtered)
    /\ phase' = "refiltered"
    /\ UNCHANGED <<rawDiff, bundle, inputVars, pc, exitCode, gitVars, remoteVars, result, logVars>>

NextDiff == ParseDiff \/ FilterDiff \/ FilterAgain

SpecDiff == InitDiff /\ [][NextDiff]_vars

----------------------------------------------------------------------------
(* Properties of the normalizer.                                           *)

\* the 1-based positions of the lines of diff that begin with mark but not
\* with three marks
markedLines(diff, mark) ==
    LET lines == split(diff)
    IN  {k \in 1..Len(lines) :
            /\ Len(lines[k]) >= 1 /\ lines[k][1] = mark
            /\ ~(Len(lines[k]) >= 3 /\ lines[k][2] = mark /\ lines[k][3] = mark)}

\* whether line begins with mark but not with three marks
isMarked(line, mark) ==
    /\ Len(line) >= 1 /\ line[1] = mark
    /\ ~(Len(line) >= 3 /\ line[2] = mark /\ line[3] = mark)

\* content of a marked line: the marker stripped, the rest trimmed
contentOf(line) == trim(SubSeq(line, 2, Len(line)))

isRecordable(text) == Len(text) >= 1 /\ Len(text) < LINE_LENGTH_LIMIT

\* the contents of the recordable marked lines of diff, in diff order
recordableContents(diff, mark) ==
    LET good == SelectSeq(split(diff),
                          LAMBDA line : isMarked(line, mark) /\ isRecordable(contentOf(line)))
    IN  [i \in 1..Len(good) |-> contentOf(good[i])]

firstN(seq, n) == IF Len(seq) <= n THEN seq ELSE SubSeq(seq, 1, n)

recordLines(records) == [k \in 1..Len(records) |-> records[k].line]

\* C2: parseDiff returns at most 50 addition records and at most 50 deletion
\* records, however many '+' and '-' lines the diff has.
C2_AtMostFiftyPerKind ==
    phase = "parsed" =>
        /\ Len(bundle.additions) <= MAX_CHANGES_PER_TYPE
        /\ Len(bundle.deletions) <= MAX_CHANGES_PER_TYPE

\* C2 witness: a parsed diff with more than 50 '+' lines whose additions
\* stopped at 50.
C2_Witness ==
    /\ phase = "parsed"
    /\ Cardinality(markedLines(rawDiff, "+")) > MAX_CHANGES_PER_TYPE
    /\ Len(bundle.additions) = MAX_CHANGES_PER_TYPE

\* C3 as stated: a '+' line (not '+++') has its content among the addition
\* records if and only if that content is non-empty and shorter than 200.
C3_RecordedIffShortNonEmpty ==
    phase = "parsed" =>
        LET lines == split(rawDiff)
        IN  \A k \in markedLines(rawDiff, "+") :
                (\E r \in 1..Len(bundle.additions) :
                     bundle.additions[r].line = contentOf(lines[k]))
                    <=> isRecordable(contentOf(lines[k]))

\* C3 amended: the addition records are, in order, the contents of the first
\* 50 '+' lines (not '+++') whose content is non-empty and shorter than 200;
\* so such a line is recorded if and only if its content is non-empty and
\* shorter than 200 and fewer than 50 such lines precede it.
C3_FirstFiftyRecordable ==
    phase = "parsed" =>
        recordLines(bundle.additions)
            = firstN(recordableContents(rawDiff, "+"), MAX_CHANGES_PER_TYPE)

\* C3 witness: a parsed diff with more than 50 recordable '+' lines, of
\* which exactly the first 50 were recorded.
C3_Witness ==
    /\ phase = "parsed"
    /\ Len(recordableContents(rawDiff, "+")) > MAX_CHANGES_PER_TYPE
    /\ Len(bundle.additions) = MAX_CHANGES_PER_TYPE

\* a parsed diff holding a '+' line that is not recordable
C3_WitnessRejected ==
    /\ phase = "parsed"
    /\ LET lines == split(rawDiff)
       IN  \E k \in markedLines(rawDiff, "+") : Len(contentOf(lines[k])) = LINE_LENGTH_LIMIT

----------------------------------------------------------------------------
(* Properties of the decision: what the evaluator answered against what    *)
(* the run did with it.                                                    *)

\* the run is over, and it was the evaluator's answer that settled the call
Answered == pc = "exited" /\ outcome = "response" /\ ~crashed

\* the run is over, and the call failed or the timeout fired first
RemoteFailed == pc = "exited" /\ outcome \in ErrorKinds \cup { "timeout" } /\ ~crashed

\* the exit code of a run that blocks, and of one that does not
codeOf(blocked) == IF blocked THEN 1 ELSE 0

\* C1 as stated: after any failure of the remote call (network error, auth
\* error, timeout) the decision is not blocked and the exit code is 0, for
\* every profile of the unified entry point and for the other scripts.
C1_RemoteFailureNeverBlocks ==
    RemoteFailed => result.success /\ exitCode = 0

\* the positions of the tokens of an answer that the pattern can match
tokenPositions(tokens) == {k \in 1..Len(tokens) : tokens[k].token}

\* C4: in the APPROVAL_STATUS script the run is blocked exactly when the
\* answer holds an APPROVAL_STATUS token and the first one states 0; a first
\* token stating 1, or no token at all, is not blocked.
C4_FirstApprovalTokenDecides ==
    (entry = "approval" /\ Answered) =>
        LET at == tokenPositions(reply.tokens)
            blocked == at # {} /\ reply.tokens[Minimum(at)].value = 0
        IN  /\ result.success = ~blocked
            /\ exitCode = codeOf(blocked)

\* C4 witness: an answer with two tokens, the first stating 0 and the second
\* stating 1, was blocked.
C4_Witness ==
    /\ entry = "approval" /\ Answered
    /\ Len(reply.tokens) = 2
    /\ reply.tokens[1].token /\ reply.tokens[1].value = 0
    /\ reply.tokens[2].token /\ reply.tokens[2].value = 1
    /\ exitCode = 1

\* the score a category has by the statement of the claims: the number on
\* its line, 7 when the answer has no line for it
scoreOrSeven(sc) == IF sc.present THEN sc.n ELSE 7

statedScores(r) ==
    [quality |-> scoreOrSeven(r.quality),
     performance |-> scoreOrSeven(r.performance),
     security |-> scoreOrSeven(r.security),
     testing |-> scoreOrSeven(r.rest),
     documentation |-> scoreOrSeven(r.rest),
     react |-> scoreOrSeven(r.rest)]

statedSum(r) ==
    scoreOrSeven(r.quality) + scoreOrSeven(r.performance) + scoreOrSeven(r.security)
        + 3 * scoreOrSeven(r.rest)

\* C5: in the pre-push score strategy (pre-push script and prepush profile),
\* on answers whose category lines are "**<NAME>:** [Score: N/10]", each of
\* the six scores is the N of its line or 7 without a line, and the push is
\* blocked exactly when the assessment is CRITICAL_ISSUES, or security < 6,
\* or quality < 5, or the sum of the six scores < 36.
C5_ScoreStrategy ==
    (Answered /\ reply.kind = "scores" /\ reply.style = "plain") =>
        LET blocked == \/ reply.assessment = "CRITICAL_ISSUES"
                       \/ scoreOrSeven(reply.security) < 6
                       \/ scoreOrSeven(reply.quality) < 5
                       \/ statedSum(reply) < 36
        IN  /\ extractScores(response) = statedScores(reply)
            /\ result.success = ~blocked
            /\ exitCode = codeOf(blocked)

\* C5 witness: assessment GOOD, quality 5, security 6, performance 3, the
\* other three defaulted to 7: only the mean (35/6) is low, and the push was
\* blocked.
C5_Witness ==
    /\ Answered /\ reply.kind = "scores" /\ reply.style = "plain"
    /\ reply.assessment = "GOOD"
    /\ reply.quality = stated(5) /\ reply.security = stated(6)
    /\ reply.performance = stated(3) /\ reply.rest = unstated
    /\ exitCode = 1

\* C6 as stated: on answers in the format the pre-push prompt prescribes
\* ("**<pictograph> SECURITY:** [Score: N/10]" and so on) the score of each
\* category is the N of its line, so a stated security score below 6 or a
\* stated quality score below 5 blocks the push.
C6_PromptFormatScoresCount ==
    (Answered /\ reply.kind = "scores" /\ reply.style = "prompt") =>
        /\ extractScores(response) = statedScores(reply)
        /\ (scoreOrSeven(reply.security) < 6 \/ scoreOrSeven(reply.quality) < 5)
               => exitCode = 1

\* the positions of the tokens of an answer that are STATUS fields
fieldPositions(tokens) == {k \in 1..Len(tokens) : tokens[k].field}

\* C7: in the pre-commit STATUS strategy (fast-path script and precommit
\* profile) the commit is blocked exactly when the answer has a STATUS field
\* and its value is FAIL in any letter case; PASS, no field and a field that
\* cannot be parsed are not blocked.
C7_StatusStrategy ==
    (Answered /\ reply.kind = "status") =>
        LET at == fieldPositions(reply.tokens)
            blocked == at # {} /\ reply.tokens[Minimum(at)].value = "FAIL"
        IN  /\ result.success = ~blocked
            /\ exitCode = codeOf(blocked)

\* C7 witness: the fast-path script blocked on "**Status:**" followed by
\* "fail" on the next line.
C7_Witness ==
    /\ entry = "precommitfast" /\ Answered /\ reply.kind = "status"
    /\ Len(reply.tokens) = 1
    /\ reply.tokens[1].text = txStatusMixed \o <<"\n", "f", "a", "i", "l">>
    /\ exitCode = 1

\* the critical sections of an answer, in the order of criticalSections
criticalBodies(r) == <<r.syntax, r.security, r.style>>

C8_WitnessClean ==
    /\ entry = "sections" /\ Answered /\ ~reply.blockingYes
    /\ reply.syntax.name = "cleanBullet"
    /\ reply.security.name = "none"
    /\ reply.style.name = "none"
    /\ exitCode = 0

\* C9 as stated: a critical section that reports its finding as a numbered
\* line and holds no clean phrase blocks the run.
C9_NumberedLineBlocks ==
    (entry = "sections" /\ Answered) =>
        LET bodies == criticalBodies(reply)
        IN  (\E k \in 1..Len(bodies) : bodies[k].numbered /\ ~bodies[k].clean)
                => exitCode = 1

\* nothing is staged: git prints an empty staged diff, or no staged file
nothingStaged ==
    \/ ~staging.diff.failed /\ Len(trim(staging.diff.text)) = 0
    \/ ~staging.names.failed /\ Len(fileList(staging.names.text)) = 0

\* C10 as stated: a precommit review of the unified entry point with nothing
\* staged exits with code 1, and makes no remote call.
C10_NothingStagedExitsOne ==
    (entry = "unified" /\ reviewType = "precommit" /\ nothingStaged /\ pc = "exited") =>
        exitCode = 1 /\ calls = 0

\* C10 amended: when the access credential is set, a precommit review of the
\* unified entry point with nothing staged exits with code 1, and makes no
\* remote call.
C10_NothingStagedWithKeyExitsOne ==
    (entry = "unified" /\ reviewType = "precommit" /\ hasApiKey /\ nothingStaged
        /\ pc = "exited") =>
        exitCode = 1 /\ calls = 0

\* C10 witness: the credential is set, the staged diff has a change and git
\* lists no staged file: the run ended with code 1 without a remote call.
C10_Witness ==
    /\ entry = "unified" /\ reviewType = "precommit" /\ hasApiKey
    /\ staging.diff = Printed(dChange)
    /\ staging.names = Printed(<<>>)
    /\ pc = "exited" /\ exitCode = 1 /\ calls = 0

----------------------------------------------------------------------------
(* Properties of the runs that find nothing to review.                     *)

\* the diff the script would review is empty or white space only: the index,
\* for a script that reviews the index; the diff main holds, for the others
blankDiffRun ==
    IF entry = "precommitfast" \/ (entry \in { "approval", "sections" } /\ reviewType = "precommit")
    THEN ~staging.diff.failed /\ Len(trim(staging.diff.text)) = 0
    ELSE gitTouched /\ ~mainDiff.isNull /\ Len(trim(mainDiff.text)) = 0

\* the runs C11 is about: every script but the precommit profile of the
\* unified entry point
outsideUnifiedPrecommit ==
    \/ entry \in { "approval", "sections", "codereview", "precommitfast" }
    \/ entry = "unified" /\ reviewType \in ReviewTypes \ { "precommit" }

C12_MissingKey ==
    ~hasApiKey =>
        /\ calls = 0
        /\ pc = "exited" =>
               exitCode = IF entry = "precommitfast" THEN 0
                          ELSE IF entry = "unified" /\ reviewType = "precommit" THEN 0
                          ELSE 1

\* C12 witness: a precommit run of the unified entry point without the
\* credential ended with code 0 and without a remote call.
C12_Witness ==
    /\ entry = "unified" /\ reviewType = "precommit" /\ ~hasApiKey
    /\ pc = "exited" /\ exitCode = 0 /\ calls = 0


\* C13 as stated: a run of the unified entry point whose review-kind argument
\* is not a key of the profile table runs no version-control command, makes
\* no remote call, writes no log, and ends with code 1.
C13_UnknownTypeExitsOne ==
    (entry = "unified" /\ reviewType \notin ReviewTypes) =>
        /\ ~gitTouched /\ calls = 0 /\ logs = 0
        /\ pc = "exited" => exitCode = 1


BaseOrder == <<"origin/main", "origin/master", "main", "master">>

TimedOut == entry = "unified" /\ outcome = "timeout"

\* C16: in the unified entry point, when the timer fires before the call
\* settles the review is a failure whatever answer arrives afterwards (it
\* blocks for precommit only), and the answer arriving afterwards changes
\* neither the result nor the exit code; when the call settles first, the
\* firing of the timer afterwards changes neither the outcome, the result nor
\* the exit code.
C16_TimeoutRace ==
    /\ [](TimedOut /\ result.made =>
            /\ result.error /\ result.success = (reviewType # "precommit")
            /\ (pc = "exited" /\ ~crashed) =>
                   exitCode = IF reviewType = "precommit" THEN 1 ELSE 0)
    /\ [][(TimedOut /\ call = "pending" /\ call' # "pending") =>
            UNCHANGED <<outcome, result, exitCode>>]_vars
    /\ [][(entry = "unified" /\ outcome \notin { "none", "timeout" } /\ timer = "armed"
                /\ timer' = "fired") =>
            UNCHANGED <<outcome, response, result, exitCode>>]_vars

\* C16 witness: a prepush run timed out, an answer naming critical issues
\* arrived afterwards, and the run ended unblocked with code 0.
C16_Witness ==
    /\ entry = "unified" /\ reviewType = "prepush" /\ outcome = "timeout"
    /\ call = "resolved" /\ matchAssessment(response) = "CRITICAL_ISSUES"
    /\ result.error /\ result.success /\ pc = "exited" /\ exitCode = 0

\* C16 witness: the answer came first and the timer fired afterwards.
C16_WitnessLateTimer ==
    /\ entry = "unified" /\ outcome = "response" /\ timer = "fired"
    /\ ~result.success /\ pc = "exited" /\ exitCode = 1


----------------------------------------------------------------------------
(* Properties of the additions-only rewrite.                               *)

\* C17: filterDiffForAddedLines is idempotent: applied to a diff it has
\* already filtered it returns that diff unchanged.
C17_FilterIdempotent ==
    [][(phase = "filtered" /\ phase' = "refiltered") => filtered' = filtered]_vars

\* C17 witness: a diff with a removed line was filtered twice; the removed
\* line is gone and the second pass changed nothing more.
C17_Witness ==
    /\ phase = "refiltered"
    /\ markedLines(rawDiff, "-") # {}
    /\ markedLines(filtered, "-") = {}
    /\ filtered # rawDiff /\ filtered # <<>>

\* the '+' lines of diff (not '+++'), marker stripped, in diff order
strippedAdditions(diff) ==
    LET plus == SelectSeq(split(diff), LAMBDA line : isMarked(line, "+"))
    IN  [i \in 1..Len(plus) |-> SubSeq(plus[i], 2, Len(plus[i]))]

\* C18 as stated: the '+' lines (not '+++') that survive the filter, marker
\* stripped, are exactly the contents of parseDiff's addition records, in the
\* same order, character for character.
C18_StrategiesAgreeExactly ==
    phase = "filtered" => strippedAdditions(filtered) = recordLines(bundle.additions)

\* C18: the contents of parseDiff's addition records are those of the '+'
\* lines (not '+++') that survive the filter, in the same order, once each
\* is trimmed, the empty ones and those of 200 characters or more are left
\* out, and only the first 50 are kept; and the filter keeps every '+' line
\* of the raw diff.
C18_StrategiesAgreeAfterTrimAndCap ==
    phase = "filtered" =>
        /\ strippedAdditions(filtered) = strippedAdditions(rawDiff)
        /\ recordLines(bundle.additions)
             = firstN(recordableContents(filtered, "+"), MAX_CHANGES_PER_TYPE)

\* C18 witness: a diff with a removed line and a '+' line that trimming
\* changes was parsed and filtered, and the record holds the trimmed text.
C18_Witness ==
    /\ phase = "filtered"
    /\ markedLines(rawDiff, "-") # {}
    /\ Len(bundle.additions) = 1
    /\ strippedAdditions(filtered) # recordLines(bundle.additions)
    /\ bundle.additions[1].line = <<"b", ";">>


----------------------------------------------------------------------------
(* Properties of the pre-push decision.                                    *)

\* the run is a pre-push review: the pre-push script, or the prepush profile
\* of the unified entry point
PrepushReview ==
    entry = "codereview" \/ (entry = "unified" /\ reviewType = "prepush")

ScoreNames == { "quality", "performance", "security", "testing", "documentation", "react" }

\* C19 as stated: each of the six category scores of a pre-push decision is
\* an integer from 0 to 10, whatever the answer says.
C19_ScoresWithinZeroToTen ==
    (PrepushReview /\ outcome = "response" /\ result.made) =>
        \A name \in ScoreNames : extractScores(response)[name] \in 0..10


C20_WitnessCritical ==
    /\ PrepushReview /\ Answered /\ reply.kind = "scores"
    /\ reply.assessment = "CRITICAL_ISSUES" /\ ~shouldBlockIgnoringAssessment("NONE", extractScores(response))
    /\ exitCode = 1


----------------------------------------------------------------------------
(* Properties of the prompt, the call and the log.                         *)

\* C22 as stated: in the unified entry point the prompt of a precommit
\* review holds the filtered diff, and the prompt of a prepush or specialized
\* review holds the diff as git printed it, removed lines included.
C22_FilterOnlyForPrecommit ==
    (entry = "unified" /\ prompt.sent) =>
        prompt.diff = IF reviewType = "precommit"
                      THEN filterDiffForAddedLines(mainDiff.text)
                      ELSE mainDiff.text


----------------------------------------------------------------------------
(* Properties of the file list of parseDiff.                               *)

\* a header line "diff --git a/X b/Y", and its Y
isHeaderLine(line) ==
    /\ startsWith(line, <<"d", "i", "f", "f", " ", "-", "-", "g", "i", "t", " ", "a", "/">>)
    /\ \E i \in 0..Len(line) : occursAt(line, <<" ", "b", "/">>, i)

newPathOf(line) ==
    LET at == {i \in 0..Len(line) : occursAt(line, <<" ", "b", "/">>, i)}
    IN  SubSeq(line, Maximum(at) + 4, Len(line))

\* the paths of the headers of diff, each once, in order of first appearance
headerPaths(diff) ==
    LET headers == SelectSeq(split(diff), isHeaderLine)
        paths == [i \in 1..Len(headers) |-> newPathOf(headers[i])]
        firsts == SelectSeq([i \in 1..Len(paths) |-> i],
                            LAMBDA i : \A j \in 1..(i - 1) : paths[j] # paths[i])
    IN  [i \in 1..Len(firsts) |-> paths[firsts[i]]]

\* for the first MAX_CHANGES_PER_TYPE recordable lines of diff with the
\* marker: the path of the last header above each, NoFile without one
filesOfRecordable(diff, mark) ==
    LET lines == split(diff)
        good == SelectSeq([i \in 1..Len(lines) |-> i],
                          LAMBDA i : isMarked(lines[i], mark)
                                        /\ isRecordable(contentOf(lines[i])))
        above(k) == {h \in 1..(k - 1) : isHeaderLine(lines[h])}
        fileAt(k) == IF above(k) = {} THEN NoFile ELSE newPathOf(lines[Maximum(above(k))])
    IN  [i \in 1..Minimum({Len(good), MAX_CHANGES_PER_TYPE}) |-> fileAt(good[i])]

recordFiles(records) == [k \in 1..Len(records) |-> records[k].file]

\* C23: the file list of parseDiff holds the b-path of every header once, in
\* order of first appearance, headers met after a cap was reached included;
\* the deletions are collected up to their own cap whatever the additions
\* have reached, and conversely; each record's file is the path of the last
\* header above its line.
C23_FileListAndRecordFiles ==
    phase = "parsed" =>
        /\ bundle.files = headerPaths(rawDiff)
        /\ recordLines(bundle.deletions)
             = firstN(recordableContents(rawDiff, "-"), MAX_CHANGES_PER_TYPE)
        /\ Len(bundle.additions)
             = Minimum({Len(recordableContents(rawDiff, "+")), MAX_CHANGES_PER_TYPE})
        /\ recordFiles(bundle.additions) = filesOfRecordable(rawDiff, "+")
        /\ recordFiles(bundle.deletions) = filesOfRecordable(rawDiff, "-")

\* C23 witness: a diff that goes from x to y and back to x was parsed: the
\* file list is x, y, and each record names the file it stands under.
C23_Witness ==
    /\ phase = "parsed" /\ rawDiff = dTwoFiles
    /\ bundle.files = << <<"x">>, <<"y">> >>
    /\ recordFiles(bundle.additions) = << <<"x">>, <<"y">>, <<"x">> >>
    /\ recordFiles(bundle.deletions) = << <<"y">> >>

\* a header met after the additions reached their cap is in the file list,
\* and a removed line met after it is recorded
C23_WitnessAfterCap ==
    /\ phase = "parsed"
    /\ Len(bundle.additions) = MAX_CHANGES_PER_TYPE
    /\ \/ bundle.files = << <<"y">> >>
       \/ Len(bundle.deletions) = 1


\* C24: in one run of any script the evaluator is called at most once: a
\* call that has failed or timed out is not repeated, and a review result
\* that is not "no changes" comes with exactly one call, which has settled
\* the review.
C24_AtMostOneCall ==
    /\ calls <= 1
    /\ (call # "none" \/ outcome # "none") => calls = 1
    /\ (result.made /\ ~result.noChanges) => calls = 1 /\ outcome # "none"

\* C24 witness: the call failed, the run is over, and one call was made.
C24_Witness ==
    /\ pc = "exited" /\ outcome \in ErrorKinds /\ call = "rejected"
    /\ result.made /\ result.error /\ calls = 1


\* C25 as stated: every run of the unified entry point eventually ends with
\* an exit code, even if the remote service never answers.
C25_UnifiedTerminates ==
    (entry = "unified") ~> (pc = "exited" /\ exitCode \in { 0, 1 })


\* C26 as stated: in the unified entry point every run that called the
\* evaluator has written exactly one log by the time main decides the exit
\* code, a run that never called it has written none, and the Status of the
\* log is PASSED exactly when the run exits with code 0.
C26_LogOncePerCalledRun ==
    entry = "unified" =>
        /\ logs <= 1
        /\ calls = 0 => logs = 0
        /\ (calls >= 1 /\ pc \in { "finish", "draining", "exited" }) => logs = 1
        /\ (calls >= 1 /\ pc = "exited") => (logStatus = "PASSED" <=> exitCode = 0)

\* C26 (amended): the same, except that a run in which writing the log
\* throws leaves no log and exits with code 1 through the top-level handler.
C26_LogOncePerCalledRunUnlessWriteFails ==
    entry = "unified" =>
        /\ logs <= 1
        /\ calls = 0 => logs = 0
        /\ (calls >= 1 /\ pc \in { "finish", "draining" }) => logs = 1
        /\ (calls >= 1 /\ pc = "exited" /\ ~crashed) =>
               logs = 1 /\ (logStatus = "PASSED" <=> exitCode = 0)
        /\ (calls >= 1 /\ pc = "exited" /\ crashed) => logs = 0 /\ exitCode = 1

C26_Witness ==
    /\ entry = "unified" /\ pc = "exited" /\ calls = 1 /\ outcome = "timeout"
    /\ logs = 1 /\ logStatus = "PASSED" /\ exitCode = 0

C26_WitnessWriteFails ==
    /\ entry = "unified" /\ pc = "exited" /\ calls = 1 /\ crashed
    /\ logs = 0 /\ exitCode = 1


\* C27: an exception that reaches the handler of main().catch ends the run
\* there, with exit code 0 in the precommit fast path and with exit code 1
\* in every other script; the run never goes on past the handler.
C27_HandlerExitCodes ==
    crashed =>
        /\ pc = "exited"
        /\ exitCode = IF entry = "precommitfast" THEN 0 ELSE 1

C27_Witness ==
    /\ entry = "precommitfast" /\ crashed /\ calls = 1 /\ pc = "exited" /\ exitCode = 0

C27_WitnessBlocking ==
    /\ entry \in { "codereview", "unified" } /\ crashed /\ pc = "exited" /\ exitCode = 1


\* the removed lines of a diff: the '-' lines inside a hunk, that is after
\* an '@@' line with no 'diff --git' line in between
removedLines(diff) ==
    LET lines == split(diff)
        inHunk(i) == \E j \in 1..(i - 1) :
                         /\ startsWith(lines[j], sHunk)
                         /\ \A k \in j..(i - 1) : ~startsWith(lines[k], sDiffGit)
    IN  { lines[i] : i \in { n \in 1..Len(lines) : inHunk(n) /\ startsWith(lines[n], sMinus) } }

linesOf(text) == { split(text)[i] : i \in 1..Len(split(text)) }

\* C28 as stated: in a precommit review of the unified entry point no
\* removed line of the diff git printed is among the lines of the diff in
\* the prompt, whatever the removed content is.
C28_NoRemovedLineInPrompt ==
    (entry = "unified" /\ reviewType = "precommit" /\ prompt.sent) =>
        removedLines(mainDiff.text) \cap linesOf(prompt.diff) = {}

\* a precommit review whose diff holds removed lines, and whose prompt
\* holds one of them
C28_RemovedLineSent ==
    /\ entry = "unified" /\ reviewType = "precommit" /\ prompt.sent
    /\ lnDelC \in removedLines(mainDiff.text)
    /\ lnDelDecrement \in linesOf(prompt.diff)


SpecializedReview ==
    entry = "unified" /\ reviewType \in ReviewTypes \ { "precommit", "prepush" }

\* C29: in a specialized review of the unified entry point a response never
\* blocks: once the call has returned a response the result is a success,
\* whatever the text says, whatever score it states and whatever the
\* profile's blocking set is, and the run that ends on it exits with code 0.
C29_SpecializedNeverBlocks ==
    /\ (SpecializedReview /\ outcome = "response" /\ result.made) =>
           result.success /\ ~result.error
    /\ (SpecializedReview /\ Answered) => exitCode = 0

C29_Witness ==
    /\ SpecializedReview /\ Answered /\ reviewType = "security"
    /\ blocking(reviewType) # {}
    /\ reply.kind = "specialized" /\ reply.score = stated(3)
    /\ matchSpecializedScore(response).score = 3
    /\ result.success /\ exitCode = 0

C29_WitnessCritical ==
    /\ SpecializedReview /\ Answered
    /\ matchAssessment(response) = "CRITICAL_ISSUES"
    /\ exitCode = 0

====
